---------------------------- MODULE Spec2Model ----------------------------
(***************************************************************************)
(* Model of the generation-orchestration and media-assembly pipeline of    *)
(* the skills repository:                                                   *)
(*   - the batch scheduler of skills/video-generation/scripts/veo.py       *)
(*     (generate_videos_batch and its thread worker), and                   *)
(*   - the pipeline controller of                                           *)
(*     skills/video-producer-agent/scripts/assemble.py (VideoAssembler).    *)
(* SpecBatch is one call of generate_videos_batch; SpecAssemble is a       *)
(* project directory on which assemble.py is run any number of times;      *)
(* SpecVeo is one call of generate_video_impl or extend_video; SpecConcat  *)
(* is one call of concat_video of skills/media-utils/scripts; SpecStatus   *)
(* follows the threads of one batch through _print_lock; SpecStrip runs    *)
(* the two implementations of the strip_audio stage on the same scenes;    *)
(* SpecInit creates a project with init_project.py and validates it.       *)
(***************************************************************************)
EXTENDS Naturals, Integers, Sequences, FiniteSets, TLC

\* ------------------------------------------------------------------ bounds
\* Largest number of configs handed to one batch.
MaxJobs == 2
\* Largest value of the max_workers argument.
MaxWorkers == 2
\* Number of distinct custom output names a batch config may declare.
MaxOutputNames == 2
\* Largest number of scenes in project.json (scene names are 1..MaxScenes,
\* numbered in the lexicographic order of their file names).
MaxScenes == 2
\* Largest number of clips handed to one call of concat_video.
MaxClips == 2

VARIABLES
    \* ---- veo.py, generate_videos_batch
    configs,        \* the configs argument: index -> [prompt, output]
    max_workers,    \* the max_workers argument
    bpc,            \* position of the calling thread in generate_videos_batch
    batch_status,   \* _batch_status: index -> "pending"|"running"|"complete"|"failed"
    batch_files,    \* _batch_files: index -> reported file name
    wpc,            \* per submitted job: position of its worker in _generate_single_for_batch
    wres,           \* per job: the worker's local `result` dict
    outcome,        \* per job: how generate_video ended for it
    future,         \* per job: state of its Future
    results,        \* the local list `results` of generate_videos_batch
    order,          \* indices in the order as_completed yielded them
    ret,            \* the value generate_videos_batch returned
    cwdFiles,       \* the working directory: file name -> index of the job whose bytes it holds
    clock           \* the clock second of the latest datetime.now() of the run (0: none yet)

batchVars == <<configs, max_workers, bpc, batch_status, batch_files, wpc, wres,
               outcome, future, results, order, ret, cwdFiles, clock>>

VARIABLES
    \* ---- assemble.py, VideoAssembler
    config,           \* project.json: audio_strategy, scenes, voiceover/music enabled
    dry_run,          \* --dry-run of the current run
    skip_generation,  \* --skip-generation of the current run
    apc,              \* the stage assemble() is about to execute, "idle" or "exited"
    steps,            \* results["steps"] of the current run
    invoked,          \* names of the stage methods called in the current run, in order
    aret,             \* the dict assemble() returned
    exit_code,        \* the exit code of main() (read when apc = "exited")
    sceneFiles,       \* scenes/*.mp4: names of the scene files present
    silentFiles,      \* work/silent_*.mp4: names of the silent variants present
    voiceoverFile,    \* audio/voiceover.wav exists
    musicFile,        \* audio/background_music.wav exists
    mixFile,          \* audio/final_mix.mp3: the tracks mixed into it ({} when absent)
    concatFile,       \* work/video_concatenated.mp4: the clips joined (<<>> when absent)
    outputFile,       \* output/<name>_final.mp4: [exists, video, audio]
    written,          \* the single-file artifacts written by the current run
    providerCalls,    \* kinds of generation jobs submitted to a provider in the current run
    concatInput,      \* the clip list the current run handed to the concatenation
    mixInput,         \* the audio tracks the current run's mix_audio read
    stageRun          \* how the latest stage of the current run got its result:
                      \* [helper: its script was "found", "absent" or "unused",
                      \*  direct: the direct transcoder routine was "not_run", "ok" or "failed"]

asmVars == <<config, dry_run, skip_generation, apc, steps, invoked, aret, exit_code,
             sceneFiles, silentFiles, voiceoverFile, musicFile, mixFile, concatFile,
             outputFile, written, providerCalls, concatInput, mixInput, stageRun>>

VARIABLES
    \* ---- veo.py, generate_video_impl and extend_video (one call)
    vcall,              \* the function called: "generate", "extend" ("none": neither)
    vpc,                \* position in it: "entry", "submit", "load", "poll", "returned", "raised"
    has_credentials,    \* a client / GOOGLE_API_KEY is configured
    duration,           \* the duration argument of generate_video_impl
    video_exists,       \* os.path.exists(video_path) of extend_video
    seed_duration,      \* length in seconds of the video at video_path
    num_extensions,     \* the num_extensions argument
    ext_num,            \* loop variable of the extension loop (0-based)
    attempt,            \* loop variable of the poll loop
    current_video_path, \* 0: the caller's video_path, n: the artifact of extension n
    requests,           \* the seeds of the requests sent to the provider, in order
    polls,              \* status requests made by the current poll loop
    lastPoll,           \* how the latest status request of the current loop ended
    artifacts,          \* numbers of the steps whose output file was written completely
    truncatedLeft,      \* a failed download left an incomplete output file on disk
    vret                \* the dict returned

veoVars == <<vcall, vpc, has_credentials, duration, video_exists, seed_duration,
             num_extensions, ext_num, attempt, current_video_path, requests, polls,
             lastPoll, artifacts, truncatedLeft, vret>>

VARIABLES
    \* ---- video_concat.py, concat_video (one call)
    input_files,          \* the input_files argument: per clip [exists, duration, probe_ok]
    transition,           \* the transition argument ("none": not given)
    transition_duration,  \* the transition_duration argument, in seconds
    cpc,                  \* position: "entry", "simple", "transition", "run", "returned"
    xfade_offsets,        \* offsets of the xfade filters of the graph built so far
    ffmpeg_invoked,       \* the transcoder was started
    cret                  \* the dict returned

concatVars == <<input_files, transition, transition_duration, cpc, xfade_offsets,
                ffmpeg_invoked, cret>>

VARIABLES
    \* ---- veo.py, _print_lock and the threads that take it (one batch)
    tpc,         \* per thread (the caller, one worker per job): its position
    lock_owner,  \* the thread holding _print_lock (LockFree: none)
    tally        \* per thread: the locals of its _update_status_display call

lockVars == <<tpc, lock_owner, tally>>

VARIABLES
    \* ---- assemble.py strip_audio_from_scenes, through video_strip_audio.py
    \*      ("helper") and through _strip_audio_ffmpeg ("ffmpeg")
    transcoder_ok,  \* the scene files the transcoder strips without error
    strip_run       \* per implementation: [at, k, out, failed, result]

stripVars == <<transcoder_ok, strip_run>>

VARIABLES
    \* ---- init_project.py, init_project (one call) and the duration check
    \*      of generate_scenes on the project it wrote
    target_duration,  \* the duration argument
    num_scenes,       \* the num_scenes argument
    ipc,              \* position: "call", "created", "error", "validated"
    invalid_scenes    \* invalid_scenes of generate_scenes: places of the rejected scenes

initVars == <<target_duration, num_scenes, ipc, invalid_scenes>>

utilVars == <<concatVars, lockVars, stripVars, initVars>>

vars == <<batchVars, asmVars, veoVars, utilVars>>

NoVeoReturn == [kind |-> "none", error |-> "none", file |-> 0, extensions_applied |-> 0]

\* Neither generate_video_impl nor extend_video is being followed (the state
\* of these variables in SpecBatch and SpecAssemble).
VeoUnused ==
    /\ vcall = "none"
    /\ vpc = "unused"
    /\ has_credentials = FALSE
    /\ duration = 0
    /\ video_exists = FALSE
    /\ seed_duration = 0
    /\ num_extensions = 0
    /\ ext_num = 0
    /\ attempt = 0
    /\ current_video_path = 0
    /\ requests = <<>>
    /\ polls = 0
    /\ lastPoll = "none"
    /\ artifacts = {}
    /\ truncatedLeft = FALSE
    /\ vret = NoVeoReturn

NoOutput == [exists |-> FALSE, video |-> <<>>, audio |-> {}]
NoAssembleReturn == [success |-> FALSE, error |-> "none", steps |-> <<>>, output_file |-> "none"]
NoStageRun == [helper |-> "unused", direct |-> "not_run"]

\* No project is being assembled (the state of the assembler in SpecBatch).
AssemblerUnused ==
    /\ config = [audio_strategy |-> "veo_audio", scenes |-> <<>>,
                 voiceover_enabled |-> FALSE, music_enabled |-> FALSE]
    /\ dry_run = FALSE
    /\ skip_generation = FALSE
    /\ apc = "unused"
    /\ steps = <<>>
    /\ invoked = <<>>
    /\ aret = NoAssembleReturn
    /\ exit_code = 0
    /\ sceneFiles = {}
    /\ silentFiles = {}
    /\ voiceoverFile = FALSE
    /\ musicFile = FALSE
    /\ mixFile = {}
    /\ concatFile = <<>>
    /\ outputFile = NoOutput
    /\ written = {}
    /\ providerCalls = {}
    /\ concatInput = <<>>
    /\ mixInput = {}
    /\ stageRun = NoStageRun

NoConcatReturn == [kind |-> "none", error |-> "none"]

\* concat_video is not being followed.
ConcatUnused ==
    /\ input_files = <<>>
    /\ transition = "none"
    /\ transition_duration = 0
    /\ cpc = "unused"
    /\ xfade_offsets = <<>>
    /\ ffmpeg_invoked = FALSE
    /\ cret = NoConcatReturn

LockFree == <<"free", 0>>

\* No thread of a batch is followed through _print_lock.
LockUnused ==
    /\ tpc = <<>>
    /\ lock_owner = LockFree
    /\ tally = <<>>

\* The two implementations of the strip_audio stage are not being compared.
StripUnused ==
    /\ transcoder_ok = {}
    /\ strip_run = <<>>

\* init_project is not being followed.
InitProjectUnused ==
    /\ target_duration = 0
    /\ num_scenes = 0
    /\ ipc = "unused"
    /\ invalid_scenes = {}

\* None of the utilities modelled on their own is being followed.
UtilUnused ==
    /\ ConcatUnused
    /\ LockUnused
    /\ StripUnused
    /\ InitProjectUnused

\* ------------------------------------------------------------- batch: data
NoFile == <<"none", 0>>
VeoFile(ts) == <<"veo", ts>>          \* f"veo_{model}_{timestamp}.mp4"
OutFile(n) == <<"out", n>>            \* the config's "output" name

Total == Cardinality(DOMAIN configs)
Indices == DOMAIN configs

\* A config: prompt is TRUE when the "prompt" field is present and non-empty;
\* output is 0 when no "output" is declared, else the number of the declared name.
ConfigSet == [prompt : BOOLEAN, output : 0..MaxOutputNames]

NoResult == [success |-> FALSE, file |-> NoFile, error |-> "unset", index |-> 0]
NoReturn == [kind |-> "none"]

Min(a, b) == IF a <= b THEN a ELSE b

\* Every list of at most MaxJobs configs, as a function on 0..n-1.
ConfigLists == UNION {[0..(n - 1) -> ConfigSet] : n \in 0..MaxJobs}

\* ---------------------------------------------------------- batch: helpers
\* ThreadPoolExecutor(max_workers=min(max_workers, total))
PoolSize == Min(max_workers, Total)

\* A job occupies a pool thread from the moment it is taken off the work queue
\* until _generate_single_for_batch returns or raises.
Active(i) == wpc[i] \in {"generate", "rename", "update"}

\* Mutant of CanStart: a failed, timed-out or crashed job stops the dispatch
\* of the jobs still waiting in the queue.
CanStartUnlessSiblingFailed(i) ==
    /\ wpc[i] = "queued"
    /\ \A j \in Indices : j < i => wpc[j] # "queued"
    /\ Cardinality({j \in Indices : Active(j)}) < PoolSize
    /\ \A j \in Indices : outcome[j] \in {"none", "success"}

\* The executor hands the work items to idle threads in submission order.
CanStart(i) ==
    /\ wpc[i] = "queued"
    /\ \A j \in Indices : j < i => wpc[j] # "queued"
    /\ Cardinality({j \in Indices : Active(j)}) < PoolSize

\* Mutant of CollectedEntry: the except branch records no index, so that the
\* sort key of the entry is the default 0.
CollectedEntryNoIndex(i) ==
    IF future[i] = "exception"
    THEN [success |-> FALSE, file |-> NoFile, error |-> "exception", index |-> 0]
    ELSE wres[i]

\* What the as_completed loop appends for a finished future: the worker's
\* result, or the record built in the except branch.
CollectedEntry(i) ==
    IF future[i] = "exception"
    THEN [success |-> FALSE, file |-> NoFile, error |-> "exception", index |-> i]
    ELSE wres[i]

\* results.sort(key=lambda x: x.get("index", 0)): a stable sort by index.
RECURSIVE InsertByIndex(_, _)
InsertByIndex(r, s) ==
    IF s = <<>> THEN <<r>>
    ELSE IF r.index < Head(s).index THEN <<r>> \o s
    ELSE <<Head(s)>> \o InsertByIndex(r, Tail(s))

RECURSIVE SortByIndex(_)
SortByIndex(s) ==
    IF s = <<>> THEN <<>>
    ELSE InsertByIndex(s[Len(s)], SortByIndex(SubSeq(s, 1, Len(s) - 1)))

\* Mutant of SortResults: the list is left in completion order.
SortResultsForgotten(rs) == rs

\* results.sort(...) of generate_videos_batch (veo.py 777).
SortResults(rs) == SortByIndex(rs)

IsSuccess(r) == r.success
IsFailure(r) == ~r.success
HasFile(r) == r.file # NoFile

\* successful = [r for r in results if r.get("success")]
Successful(rs) == SelectSeq(rs, IsSuccess)
\* failed_list = [r for r in results if not r.get("success")]
FailedList(rs) == SelectSeq(rs, IsFailure)
\* [r.get("file") for r in successful if r.get("file")]
FilesOf(rs) ==
    LET withFile == SelectSeq(Successful(rs), HasFile)
    IN  [k \in 1..Len(withFile) |-> withFile[k].file]

\* Mutant of BatchResult: success is reported as soon as one job succeeded.
BatchResultAnySuccess(rs) ==
    [kind |-> "result",
     success |-> Len(Successful(rs)) > 0,
     results |-> rs,
     files |-> FilesOf(rs),
     successful |-> Len(Successful(rs)),
     failed |-> Len(FailedList(rs)),
     total |-> Total]

\* The dict generate_videos_batch returns for a batch that ran.
BatchResult(rs) ==
    [kind |-> "result",
     success |-> Len(FailedList(rs)) = 0,
     results |-> rs,
     files |-> FilesOf(rs),
     successful |-> Len(Successful(rs)),
     failed |-> Len(FailedList(rs)),
     total |-> Total]

\* open(filename, "wb").write(...): the file now holds job i's bytes.
WriteFile(fs, path, i) ==
    [p \in (DOMAIN fs) \cup {path} |-> IF p = path THEN i ELSE fs[p]]

\* os.rename(src, dst) on an existing src: dst replaces src.
RenameFile(fs, src, dst) ==
    [p \in ((DOMAIN fs) \ {src}) \cup {dst} |-> IF p = dst THEN fs[src] ELSE fs[p]]

\* ---------------------------------------------------------- batch: actions
\* generate_videos_batch up to the submission of the jobs (veo.py 725-761).
BatchBegin ==
    /\ bpc = "call"
    /\ IF Total = 0
       THEN /\ ret' = [kind |-> "error", error |-> "No video configs provided"]
            /\ bpc' = "error"
            /\ UNCHANGED <<batch_status, batch_files, wpc, future>>
       ELSE IF \E i \in Indices : ~configs[i].prompt
       THEN /\ ret' = [kind |-> "error", error |-> "missing required 'prompt' field"]
            /\ bpc' = "error"
            /\ UNCHANGED <<batch_status, batch_files, wpc, future>>
       ELSE /\ batch_status' = [i \in Indices |-> "pending"]
            /\ batch_files' = <<>>
            /\ wpc' = [i \in Indices |-> "queued"]
            /\ future' = [i \in Indices |-> "pending"]
            /\ bpc' = "running"
            /\ UNCHANGED ret
    /\ UNCHANGED <<configs, max_workers, wres, outcome, results, order, cwdFiles, clock>>
    /\ UNCHANGED <<asmVars, veoVars, utilVars>>

\* A pool thread takes job i and marks it running (veo.py 662-666).
WorkerStart(i) ==
    /\ bpc = "running"
    /\ CanStart(i)
    /\ batch_status' = [batch_status EXCEPT ![i] = "running"]
    /\ wpc' = [wpc EXCEPT ![i] = "generate"]
    /\ future' = [future EXCEPT ![i] = "running"]
    /\ UNCHANGED <<configs, max_workers, bpc, batch_files, wres, outcome, results,
                   order, ret, cwdFiles, clock>>
    /\ UNCHANGED <<asmVars, veoVars, utilVars>>

\* Where the worker goes after generate_video returned `r` (veo.py 680).
AfterGenerate(i, r) ==
    IF r.success /\ configs[i].output # 0 /\ r.file # NoFile THEN "rename" ELSE "update"

\* The call of generate_video (veo.py 669-677): it saves the video under a
\* name built from the clock second, returns an error dict (provider failure,
\* no data, poll budget exhausted), or raises (get_genai_client, line 393, is
\* outside the try of generate_video_impl).  Seconds are numbered from 1 in
\* the order they are first used for a name: a name is built in the second of
\* the previous name or in a later one.
WorkerGenerate(i) ==
    /\ wpc[i] = "generate"
    /\ \/ \E ts \in {clock, clock + 1} \ {0} :
            /\ clock' = ts
            /\ cwdFiles' = WriteFile(cwdFiles, VeoFile(ts), i)
            /\ wres' = [wres EXCEPT ![i] =
                          [success |-> TRUE, file |-> VeoFile(ts), error |-> "none", index |-> 0]]
            /\ outcome' = [outcome EXCEPT ![i] = "success"]
            /\ wpc' = [wpc EXCEPT ![i] = AfterGenerate(i, wres'[i])]
            /\ UNCHANGED future
       \/ \E e \in {"failed", "timeout"} :
            /\ wres' = [wres EXCEPT ![i] =
                          [success |-> FALSE, file |-> NoFile, error |-> e, index |-> 0]]
            /\ outcome' = [outcome EXCEPT ![i] = e]
            /\ wpc' = [wpc EXCEPT ![i] = AfterGenerate(i, wres'[i])]
            /\ UNCHANGED <<future, cwdFiles, clock>>
       \/ /\ outcome' = [outcome EXCEPT ![i] = "raised"]
          /\ future' = [future EXCEPT ![i] = "exception"]
          /\ wpc' = [wpc EXCEPT ![i] = "done"]
          /\ UNCHANGED <<wres, cwdFiles, clock>>
    /\ UNCHANGED <<configs, max_workers, bpc, batch_status, batch_files, results, order, ret>>
    /\ UNCHANGED <<asmVars, veoVars, utilVars>>

\* os.rename(result["file"], output_name), OSError ignored (veo.py 680-685).
WorkerRename(i) ==
    /\ wpc[i] = "rename"
    /\ LET src == wres[i].file
           dst == OutFile(configs[i].output)
       IN  \/ /\ src \in DOMAIN cwdFiles
              /\ cwdFiles' = RenameFile(cwdFiles, src, dst)
              /\ wres' = [wres EXCEPT ![i].file = dst]
           \/ \* OSError: the source is gone, or the rename is refused
              /\ UNCHANGED <<cwdFiles, wres>>
    /\ wpc' = [wpc EXCEPT ![i] = "update"]
    /\ UNCHANGED <<configs, max_workers, bpc, batch_status, batch_files, outcome,
                   future, results, order, ret, clock>>
    /\ UNCHANGED <<asmVars, veoVars, utilVars>>

\* Mutant of StatusOf: a failed job is put back to pending.
StatusOfRequeued(r) == IF r.success THEN "complete" ELSE "pending"

\* The status the worker records for its result (veo.py 688-693).
StatusOf(r) == IF r.success THEN "complete" ELSE "failed"

\* The worker records the terminal status and returns (veo.py 687-699).
WorkerUpdateStatus(i) ==
    /\ wpc[i] = "update"
    /\ batch_status' = [batch_status EXCEPT ![i] = StatusOf(wres[i])]
    /\ batch_files' = IF wres[i].success
                      THEN [j \in (DOMAIN batch_files) \cup {i} |->
                               IF j = i THEN wres[i].file ELSE batch_files[j]]
                      ELSE batch_files
    /\ wres' = [wres EXCEPT ![i].index = i]
    /\ future' = [future EXCEPT ![i] = "result"]
    /\ wpc' = [wpc EXCEPT ![i] = "done"]
    /\ UNCHANGED <<configs, max_workers, bpc, outcome, results, order, ret, cwdFiles, clock>>
    /\ UNCHANGED <<asmVars, veoVars, utilVars>>

Collected == {order[k] : k \in 1..Len(order)}

\* One turn of the as_completed loop (veo.py 764-774).
Collect(i) ==
    /\ bpc = "running"
    /\ future[i] \in {"result", "exception"}
    /\ i \notin Collected
    /\ results' = Append(results, CollectedEntry(i))
    /\ order' = Append(order, i)
    /\ UNCHANGED <<configs, max_workers, bpc, batch_status, batch_files, wpc, wres,
                   outcome, future, ret, cwdFiles, clock>>
    /\ UNCHANGED <<asmVars, veoVars, utilVars>>

\* The loop is over: sort, count, return (veo.py 776-817).
BatchReturn ==
    /\ bpc = "running"
    /\ Collected = Indices
    /\ results' = SortResults(results)
    /\ ret' = BatchResult(results')
    /\ bpc' = "returned"
    /\ UNCHANGED <<configs, max_workers, batch_status, batch_files, wpc, wres, outcome,
                   future, order, cwdFiles, clock>>
    /\ UNCHANGED <<asmVars, veoVars, utilVars>>

InitBatch ==
    /\ configs \in ConfigLists
    /\ max_workers \in 1..MaxWorkers
    /\ bpc = "call"
    /\ batch_status = <<>>
    /\ batch_files = <<>>
    /\ wpc = [i \in Indices |-> "unsubmitted"]
    /\ wres = [i \in Indices |-> NoResult]
    /\ outcome = [i \in Indices |-> "none"]
    /\ future = [i \in Indices |-> "none"]
    /\ results = <<>>
    /\ order = <<>>
    /\ ret = NoReturn
    /\ cwdFiles = <<>>
    /\ clock = 0
    /\ AssemblerUnused
    /\ VeoUnused
    /\ UtilUnused

NextBatch ==
    \/ BatchBegin
    \/ \E i \in Indices : WorkerStart(i)
    \/ \E i \in Indices : WorkerGenerate(i)
    \/ \E i \in Indices : WorkerRename(i)
    \/ \E i \in Indices : WorkerUpdateStatus(i)
    \/ \E i \in Indices : Collect(i)
    \/ BatchReturn

SpecBatch == InitBatch /\ [][NextBatch]_vars

\* ========================================================== assemble.py
\* ------------------------------------------------------- assembler: data
\* VALID_DURATIONS of generate_scenes (assemble.py 355).
VALID_DURATIONS == {4, 6, 8}
\* The durations a scene of a modelled project.json may declare.
DurationChoices == {5, 6}
SceneNames == 1..MaxScenes

\* Every scene list of at most MaxScenes scenes with pairwise distinct names.
SceneLists ==
    UNION {{sc \in [1..n -> [name : SceneNames, duration : DurationChoices]] :
               \A a, b \in 1..n : a # b => sc[a].name # sc[b].name}
           : n \in 0..MaxScenes}

ProjectConfigs ==
    [audio_strategy : {"veo_audio", "custom", "silent"},
     scenes : SceneLists,
     voiceover_enabled : BOOLEAN,
     music_enabled : BOOLEAN]

DeclaredNames == [k \in 1..Len(config.scenes) |-> config.scenes[k].name]
DeclaredNameSet == {config.scenes[k].name : k \in 1..Len(config.scenes)}

\* sorted(dir.glob(...)): the files of a directory in file-name order.
RECURSIVE SortedFiles(_)
SortedFiles(S) ==
    IF S = {} THEN <<>>
    ELSE LET m == CHOOSE x \in S : \A y \in S : x <= y
         IN  <<m>> \o SortedFiles(S \ {m})

\* Mutant of InvalidScenes: the duration check is dropped.
InvalidScenesUnchecked(scenes) == {}

\* invalid_scenes of generate_scenes (assemble.py 354-360).
InvalidScenes(scenes) ==
    {k \in 1..Len(scenes) : scenes[k].duration \notin VALID_DURATIONS}

\* The files _strip_audio_ffmpeg strips before it returns: the loop stops at
\* the first file the transcoder fails on (assemble.py 444-451).
RECURSIVE StrippedPrefix(_, _)
StrippedPrefix(files, okSet) ==
    IF files = <<>> \/ Head(files) \notin okSet THEN {}
    ELSE {Head(files)} \cup StrippedPrefix(Tail(files), okSet)

StageResult(name, ok, err) == [name |-> name, success |-> ok, error |-> err]

\* return {"success": False, "error": ..., **results}
FailureReturn(err, st) ==
    [success |-> FALSE, error |-> err, steps |-> st, output_file |-> "none"]

\* ------------------------------------------- assembler: stage sequencing
\* The stage after generate_music (assemble.py 287).
AfterMusic == "mix"
\* The stage after generate_voiceover (assemble.py 278).
AfterVoiceover ==
    IF config.music_enabled /\ ~skip_generation THEN "music" ELSE AfterMusic
\* The stage after strip_audio (assemble.py 268 for custom, 301 for silent).
AfterStrip ==
    IF config.audio_strategy = "custom"
    THEN IF config.voiceover_enabled /\ ~skip_generation THEN "voiceover" ELSE AfterVoiceover
    ELSE "concat"
\* The stage after generate_scenes (assemble.py 257, 294, 301).
AfterScenes ==
    IF config.audio_strategy \in {"custom", "silent"} THEN "strip" ELSE "concat"

\* Mutant of AfterConcat: the merge stage follows under every audio strategy.
AfterConcatAlwaysMerge == "merge"

\* The stage after concatenate_videos (assemble.py 311).
AfterConcat ==
    IF config.audio_strategy = "custom" THEN "merge" ELSE "finish"

\* The first stage of a run (assemble.py 244).
FirstStage(skip) == IF ~skip THEN "scenes" ELSE AfterScenes

\* The exit code of main() for a returned result (assemble.py 774-789).
ExitCode(r) == IF r.success THEN 0 ELSE 1

\* ---------------------------------------------------- assembler: actions
\* main() builds the assembler and assemble() starts (assemble.py 765-240):
\* the project directory is as the earlier runs left it.
AssembleStart ==
    /\ apc \in {"idle", "exited"}
    /\ \E d, sk \in BOOLEAN :
          /\ dry_run' = d
          /\ skip_generation' = sk
          /\ apc' = FirstStage(sk)
    /\ steps' = <<>>
    /\ invoked' = <<>>
    /\ aret' = NoAssembleReturn
    /\ written' = {}
    /\ providerCalls' = {}
    /\ concatInput' = <<>>
    /\ mixInput' = {}
    /\ stageRun' = NoStageRun
    /\ UNCHANGED <<config, exit_code, sceneFiles, silentFiles, voiceoverFile, musicFile,
                   mixFile, concatFile, outputFile>>
    /\ UNCHANGED <<batchVars, veoVars, utilVars>>

\* A stage ended with StageResult `sr`; on failure of a stage whose failure
\* assemble() checks it returns, else it goes on to stage `next`.
StageDone(sr, checked, err, next) ==
    /\ steps' = Append(steps, sr)
    /\ IF checked /\ ~sr.success
       THEN /\ aret' = FailureReturn(err, steps')
            /\ exit_code' = ExitCode(aret')
            /\ apc' = "exited"
       ELSE /\ apc' = next
            /\ UNCHANGED <<aret, exit_code>>

\* An exception left a stage: the except branch of assemble() returns
\* (assemble.py 334-335).
StageRaised ==
    /\ aret' = FailureReturn("exception", steps)
    /\ exit_code' = ExitCode(aret')
    /\ apc' = "exited"
    /\ UNCHANGED steps

\* Step 1, generate_scenes (assemble.py 243-251, 337-400).
GenerateScenes ==
    /\ apc = "scenes"
    /\ invoked' = Append(invoked, "generate_scenes")
    /\ stageRun' = NoStageRun
    /\ \/ /\ dry_run
          /\ StageDone(StageResult("generate_scenes", TRUE, "none"), TRUE,
                       "Scene generation failed", AfterScenes)
          /\ UNCHANGED <<sceneFiles, providerCalls>>
       \/ /\ ~dry_run
          /\ \E helper \in BOOLEAN :
                IF ~helper
                THEN /\ StageDone(StageResult("generate_scenes", FALSE, "Could not find veo.py"),
                                  TRUE, "Scene generation failed", AfterScenes)
                     /\ UNCHANGED <<sceneFiles, providerCalls>>
                ELSE IF config.scenes = <<>>
                THEN /\ StageDone(StageResult("generate_scenes", FALSE, "No scenes defined"),
                                  TRUE, "Scene generation failed", AfterScenes)
                     /\ UNCHANGED <<sceneFiles, providerCalls>>
                ELSE IF InvalidScenes(config.scenes) # {}
                THEN /\ StageDone(StageResult("generate_scenes", FALSE, "Invalid durations"),
                                  TRUE, "Scene generation failed", AfterScenes)
                     /\ UNCHANGED <<sceneFiles, providerCalls>>
                ELSE \* run_script(veo.py --batch ..., timeout=1200): exit code 0 only
                     \* if every job succeeded; a timeout fails the stage anyway
                     /\ providerCalls' = providerCalls \cup {"scenes"}
                     /\ \E made \in SUBSET DeclaredNameSet : \E ok \in BOOLEAN :
                           /\ ok => made = DeclaredNameSet
                           /\ sceneFiles' = sceneFiles \cup made
                           /\ StageDone(StageResult("generate_scenes", ok,
                                                    IF ok THEN "none" ELSE "batch failed"),
                                        TRUE, "Scene generation failed", AfterScenes)
    /\ UNCHANGED <<config, dry_run, skip_generation, silentFiles, voiceoverFile, musicFile,
                   mixFile, concatFile, outputFile, written, concatInput, mixInput>>
    /\ UNCHANGED <<batchVars, veoVars, utilVars>>

\* Mutant of WithFallback: without its helper script a stage fails.
WithFallbackHelperOnly(helper, scriptOk, ffmpegOk) == helper /\ scriptOk

\* A stage that tries its helper script and falls back to the transcoder
\* succeeds when either does (assemble.py 562-571, 640-649, 700-720).
WithFallback(helper, scriptOk, ffmpegOk) == (helper /\ scriptOk) \/ ffmpegOk

\* How such a stage got its result: the direct transcoder command runs when
\* the helper script is absent (except FileNotFoundError) or did not deliver.
StageRunOf(helper, scriptOk, ffmpegOk) ==
    [helper |-> IF helper THEN "found" ELSE "absent",
     direct |-> IF helper /\ scriptOk THEN "not_run"
                ELSE IF ffmpegOk THEN "ok" ELSE "failed"]

\* Step 2, strip_audio_from_scenes (assemble.py 257-265, 294-299, 402-453).
\* okSet: the scene files the transcoder strips without error.
StripAudio ==
    /\ apc = "strip"
    /\ invoked' = Append(invoked, "strip_audio")
    /\ LET checked == config.audio_strategy = "custom"
       IN  \/ /\ dry_run
              /\ StageDone(StageResult("strip_audio", TRUE, "none"), checked,
                           "Audio stripping failed", AfterStrip)
              /\ stageRun' = NoStageRun
              /\ UNCHANGED silentFiles
           \/ /\ ~dry_run
              /\ \E helper \in BOOLEAN : \E okSet \in SUBSET sceneFiles :
                    LET stripped == IF helper THEN okSet
                                    ELSE StrippedPrefix(SortedFiles(sceneFiles), okSet)
                        ok == IF helper THEN sceneFiles # {} /\ okSet = sceneFiles
                              ELSE okSet = sceneFiles
                    IN  /\ silentFiles' = silentFiles \cup stripped
                        /\ stageRun' = IF helper THEN [helper |-> "found", direct |-> "not_run"]
                                        ELSE [helper |-> "absent",
                                              direct |-> IF ok THEN "ok" ELSE "failed"]
                        /\ StageDone(StageResult("strip_audio", ok,
                                                 IF ok THEN "none" ELSE "strip failed"),
                                     checked, "Audio stripping failed", AfterStrip)
    /\ UNCHANGED <<config, dry_run, skip_generation, sceneFiles, voiceoverFile, musicFile,
                   mixFile, concatFile, outputFile, written, providerCalls, concatInput,
                   mixInput>>
    /\ UNCHANGED <<batchVars, veoVars, utilVars>>

\* generate_voiceover, non-fatal (assemble.py 267-275, 455-487). `called`: the
\* TTS script was started (it is not when the text or the script is missing).
GenerateVoiceover ==
    /\ apc = "voiceover"
    /\ invoked' = Append(invoked, "generate_voiceover")
    /\ stageRun' = NoStageRun
    /\ \/ /\ dry_run
          /\ StageDone(StageResult("generate_voiceover", TRUE, "none"), FALSE, "none",
                       AfterVoiceover)
          /\ UNCHANGED <<voiceoverFile, written, providerCalls>>
       \/ /\ ~dry_run
          /\ \E ok, called \in BOOLEAN :
                /\ ok => called
                /\ voiceoverFile' = (voiceoverFile \/ ok)
                /\ written' = IF ok THEN written \cup {"voiceover"} ELSE written
                /\ providerCalls' = IF called THEN providerCalls \cup {"voiceover"}
                                    ELSE providerCalls
                /\ StageDone(StageResult("generate_voiceover", ok,
                                         IF ok THEN "none" ELSE "voiceover failed"),
                             FALSE, "none", AfterVoiceover)
    /\ UNCHANGED <<config, dry_run, skip_generation, sceneFiles, silentFiles, musicFile,
                   mixFile, concatFile, outputFile, concatInput, mixInput>>
    /\ UNCHANGED <<batchVars, veoVars, utilVars>>

\* generate_music, non-fatal (assemble.py 277-285, 489-523).
GenerateMusic ==
    /\ apc = "music"
    /\ invoked' = Append(invoked, "generate_music")
    /\ stageRun' = NoStageRun
    /\ \/ /\ dry_run
          /\ StageDone(StageResult("generate_music", TRUE, "none"), FALSE, "none", AfterMusic)
          /\ UNCHANGED <<musicFile, written, providerCalls>>
       \/ /\ ~dry_run
          /\ \E ok, called \in BOOLEAN :
                /\ ok => called
                /\ musicFile' = (musicFile \/ ok)
                /\ written' = IF ok THEN written \cup {"music"} ELSE written
                /\ providerCalls' = IF called THEN providerCalls \cup {"music"}
                                    ELSE providerCalls
                /\ StageDone(StageResult("generate_music", ok,
                                         IF ok THEN "none" ELSE "music failed"),
                             FALSE, "none", AfterMusic)
    /\ UNCHANGED <<config, dry_run, skip_generation, sceneFiles, silentFiles, voiceoverFile,
                   mixFile, concatFile, outputFile, concatInput, mixInput>>
    /\ UNCHANGED <<batchVars, veoVars, utilVars>>

\* The audio tracks mix_audio finds on disk (assemble.py 532-538).
TracksOnDisk ==
    (IF voiceoverFile THEN {"voiceover"} ELSE {}) \cup (IF musicFile THEN {"music"} ELSE {})

\* mix_audio; assemble() does not check its result (assemble.py 287-292, 525-605).
MixAudio ==
    /\ apc = "mix"
    /\ invoked' = Append(invoked, "mix_audio")
    /\ \/ /\ dry_run
          /\ StageDone(StageResult("mix_audio", TRUE, "none"), FALSE, "none", "concat")
          /\ stageRun' = NoStageRun
          /\ UNCHANGED <<mixFile, written, mixInput>>
       \/ /\ ~dry_run
          /\ TracksOnDisk = {}
          /\ StageDone(StageResult("mix_audio", TRUE, "No audio files generated"), FALSE,
                       "none", "concat")
          /\ stageRun' = NoStageRun
          /\ UNCHANGED <<mixFile, written, mixInput>>
       \/ /\ ~dry_run
          /\ TracksOnDisk = {"voiceover", "music"}
          /\ mixInput' = TracksOnDisk
          /\ \E helper, scriptOk, ffmpegOk \in BOOLEAN :
                LET ok == WithFallback(helper, scriptOk, ffmpegOk)
                IN  /\ mixFile' = IF ok THEN TracksOnDisk ELSE mixFile
                    /\ stageRun' = StageRunOf(helper, scriptOk, ffmpegOk)
                    /\ written' = IF ok THEN written \cup {"mix"} ELSE written
                    /\ StageDone(StageResult("mix_audio", ok,
                                             IF ok THEN "none" ELSE "mix failed"),
                                 FALSE, "none", "concat")
       \/ /\ ~dry_run
          /\ Cardinality(TracksOnDisk) = 1
          /\ mixInput' = TracksOnDisk
          /\ stageRun' = NoStageRun
          /\ \/ \* shutil.copy of the only track
                /\ mixFile' = TracksOnDisk
                /\ written' = written \cup {"mix"}
                /\ StageDone(StageResult("mix_audio", TRUE, "none"), FALSE, "none", "concat")
             \/ \* shutil.copy raises
                /\ StageRaised
                /\ UNCHANGED <<mixFile, written>>
    /\ UNCHANGED <<config, dry_run, skip_generation, sceneFiles, silentFiles, voiceoverFile,
                   musicFile, concatFile, outputFile, providerCalls, concatInput>>
    /\ UNCHANGED <<batchVars, veoVars, utilVars>>

\* video_files of concatenate_videos (assemble.py 614-618).
VideoFiles ==
    IF config.audio_strategy \in {"custom", "silent"}
    THEN SortedFiles(silentFiles)
    ELSE SortedFiles(sceneFiles)

\* Step 3, concatenate_videos (assemble.py 301-308, 607-669).
ConcatenateVideos ==
    /\ apc = "concat"
    /\ invoked' = Append(invoked, "concatenate_videos")
    /\ \/ /\ dry_run
          /\ StageDone(StageResult("concatenate_videos", TRUE, "none"), TRUE,
                       "Video concatenation failed", AfterConcat)
          /\ stageRun' = NoStageRun
          /\ UNCHANGED <<concatFile, written, concatInput>>
       \/ /\ ~dry_run
          /\ VideoFiles = <<>>
          /\ StageDone(StageResult("concatenate_videos", FALSE, "No video files to concatenate"),
                       TRUE, "Video concatenation failed", AfterConcat)
          /\ stageRun' = NoStageRun
          /\ UNCHANGED <<concatFile, written, concatInput>>
       \/ /\ ~dry_run
          /\ VideoFiles # <<>>
          /\ concatInput' = VideoFiles
          /\ \E helper, scriptOk, ffmpegOk \in BOOLEAN :
                LET ok == WithFallback(helper, scriptOk, ffmpegOk)
                IN  /\ concatFile' = IF ok THEN VideoFiles ELSE concatFile
                    /\ stageRun' = StageRunOf(helper, scriptOk, ffmpegOk)
                    /\ written' = IF ok THEN written \cup {"concat"} ELSE written
                    /\ StageDone(StageResult("concatenate_videos", ok,
                                             IF ok THEN "none" ELSE "concat failed"),
                                 TRUE, "Video concatenation failed", AfterConcat)
    /\ UNCHANGED <<config, dry_run, skip_generation, sceneFiles, silentFiles, voiceoverFile,
                   musicFile, mixFile, outputFile, providerCalls, mixInput>>
    /\ UNCHANGED <<batchVars, veoVars, utilVars>>

\* Step 4, merge_audio_video (assemble.py 310-318, 671-720).
MergeAudioVideo ==
    /\ apc = "merge"
    /\ invoked' = Append(invoked, "merge_audio_video")
    /\ \/ /\ dry_run
          /\ StageDone(StageResult("merge_audio_video", TRUE, "none"), TRUE,
                       "Audio/video merge failed", "finish")
          /\ stageRun' = NoStageRun
          /\ UNCHANGED <<outputFile, written>>
       \/ /\ ~dry_run
          /\ concatFile = <<>>
          /\ StageDone(StageResult("merge_audio_video", FALSE, "Concatenated video not found"),
                       TRUE, "Audio/video merge failed", "finish")
          /\ stageRun' = NoStageRun
          /\ UNCHANGED <<outputFile, written>>
       \/ /\ ~dry_run
          /\ concatFile # <<>>
          /\ mixFile = {}
          /\ stageRun' = NoStageRun
          /\ \/ \* no audio to merge: shutil.copy of the video
                /\ outputFile' = [exists |-> TRUE, video |-> concatFile, audio |-> {}]
                /\ written' = written \cup {"output"}
                /\ StageDone(StageResult("merge_audio_video", TRUE, "none"), TRUE,
                             "Audio/video merge failed", "finish")
             \/ \* shutil.copy raises
                /\ StageRaised
                /\ UNCHANGED <<outputFile, written>>
       \/ /\ ~dry_run
          /\ concatFile # <<>>
          /\ mixFile # {}
          /\ \E helper, scriptOk, ffmpegOk \in BOOLEAN :
                LET ok == WithFallback(helper, scriptOk, ffmpegOk)
                IN  /\ outputFile' = IF ok
                                     THEN [exists |-> TRUE, video |-> concatFile, audio |-> mixFile]
                                     ELSE outputFile
                    /\ stageRun' = StageRunOf(helper, scriptOk, ffmpegOk)
                    /\ written' = IF ok THEN written \cup {"output"} ELSE written
                    /\ StageDone(StageResult("merge_audio_video", ok,
                                             IF ok THEN "none" ELSE "merge failed"),
                                 TRUE, "Audio/video merge failed", "finish")
    /\ UNCHANGED <<config, dry_run, skip_generation, sceneFiles, silentFiles, voiceoverFile,
                   musicFile, mixFile, concatFile, providerCalls, concatInput, mixInput>>
    /\ UNCHANGED <<batchVars, veoVars, utilVars>>

\* Every stage passed: assemble() reports success and the path of
\* get_output_filename(), main() exits 0 (assemble.py 320-332, 722-726, 774-781).
AssembleFinish ==
    /\ apc = "finish"
    /\ aret' = [success |-> TRUE, error |-> "none", steps |-> steps, output_file |-> "output"]
    /\ exit_code' = ExitCode(aret')
    /\ apc' = "exited"
    /\ UNCHANGED <<config, dry_run, skip_generation, steps, invoked, sceneFiles, silentFiles,
                   voiceoverFile, musicFile, mixFile, concatFile, outputFile, written,
                   providerCalls, concatInput, mixInput, stageRun>>
    /\ UNCHANGED <<batchVars, veoVars, utilVars>>

\* No batch is running in this process (the state of veo.py in SpecAssemble).
BatchUnused ==
    /\ configs = <<>>
    /\ max_workers = 1
    /\ bpc = "unused"
    /\ batch_status = <<>>
    /\ batch_files = <<>>
    /\ wpc = <<>>
    /\ wres = <<>>
    /\ outcome = <<>>
    /\ future = <<>>
    /\ results = <<>>
    /\ order = <<>>
    /\ ret = NoReturn
    /\ cwdFiles = <<>>
    /\ clock = 0

\* A project directory as init_project.py leaves it (empty scenes/, audio/,
\* work/, output/) with a project.json edited by the user.
InitAssemble ==
    /\ config \in ProjectConfigs
    /\ dry_run = FALSE
    /\ skip_generation = FALSE
    /\ apc = "idle"
    /\ steps = <<>>
    /\ invoked = <<>>
    /\ aret = NoAssembleReturn
    /\ exit_code = 0
    /\ sceneFiles = {}
    /\ silentFiles = {}
    /\ voiceoverFile = FALSE
    /\ musicFile = FALSE
    /\ mixFile = {}
    /\ concatFile = <<>>
    /\ outputFile = NoOutput
    /\ written = {}
    /\ providerCalls = {}
    /\ concatInput = <<>>
    /\ mixInput = {}
    /\ stageRun = NoStageRun
    /\ BatchUnused
    /\ VeoUnused
    /\ UtilUnused

NextAssemble ==
    \/ AssembleStart
    \/ GenerateScenes
    \/ StripAudio
    \/ GenerateVoiceover
    \/ GenerateMusic
    \/ MixAudio
    \/ ConcatenateVideos
    \/ MergeAudioVideo
    \/ AssembleFinish

SpecAssemble == InitAssemble /\ [][NextAssemble]_vars

\* ================================== veo.py: generate_video_impl, extend_video
\* ------------------------------------------------------------ single call: data
\* num_extensions > 20 is rejected (veo.py 250).
MAX_EXTENSIONS == 20
\* max_attempts of the poll loop of generate_video_impl (veo.py 480).
max_attempts == 72
\* max_attempts of the poll loop of an extension step (veo.py 301).
extend_max_attempts == 72
\* "Input video must be Veo-generated, max 141 seconds" (veo.py 235).
MAX_SOURCE_DURATION == 141
\* valid_durations of generate_video_impl (veo.py 419).
valid_durations == {4, 6, 8}

\* The arguments of the modelled calls.
NumExtensionsChoices == {-1, 0, 1, 2, 3, MAX_EXTENSIONS, MAX_EXTENSIONS + 1}
SeedDurationChoices == {MAX_SOURCE_DURATION, MAX_SOURCE_DURATION + 1}
GenDurationChoices == {5, 8}

\* return {"error": ...}
VeoError(e) == [kind |-> "error", error |-> e, file |-> 0, extensions_applied |-> 0]
\* return {"success": True, "file": ..., "extensions_applied": ...}
VeoSuccess(f, n) == [kind |-> "success", error |-> "none", file |-> f, extensions_applied |-> n]

\* Mutant of ValidNumExtensions: the upper limit is not checked.
ValidNumExtensionsNoUpper(n) == n >= 1

\* not (num_extensions < 1 or num_extensions > 20) (veo.py 250).
ValidNumExtensions(n) == ~(n < 1 \/ n > MAX_EXTENSIONS)

\* The poll loop of generate_video_impl is over after `a` turns (veo.py 481).
GenBudgetSpent(a) == a >= max_attempts

\* Mutant of ExtBudgetSpent: the poll loop of an extension step has no limit.
ExtBudgetNeverSpent(a) == FALSE

\* The poll loop of an extension step is over after `a` turns (veo.py 302, 355).
ExtBudgetSpent(a) == a >= extend_max_attempts

\* Mutant of Seed: a step submits the video the previous step had submitted.
SeedOneBehind == IF current_video_path > 0 THEN current_video_path - 1 ELSE current_video_path

\* The video a step submits: load_video_as_base64(current_video_path) (veo.py 261).
Seed == current_video_path

\* ---------------------------------------------------------- single call: steps
VeoReturn(r) ==
    /\ vret' = r
    /\ vpc' = "returned"

\* generate_video_impl up to the start of the request (veo.py 393-433):
\* get_genai_client and the model lookup are outside the try and may raise.
GenEnter ==
    /\ vcall = "generate"
    /\ vpc = "entry"
    /\ \/ /\ has_credentials
          /\ vpc' = "raised"
          /\ UNCHANGED vret
       \/ /\ ~has_credentials
          /\ VeoReturn(VeoError("no_credentials"))
       \/ /\ has_credentials
          /\ duration \notin valid_durations
          /\ VeoReturn(VeoError("invalid_parameters"))
       \/ /\ has_credentials
          /\ duration \in valid_durations
          /\ vpc' = "submit"
          /\ UNCHANGED vret
    /\ UNCHANGED <<vcall, has_credentials, duration, video_exists, seed_duration,
                   num_extensions, ext_num, attempt, current_video_path, requests, polls,
                   lastPoll, artifacts, truncatedLeft>>
    /\ UNCHANGED <<batchVars, asmVars, utilVars>>

\* client.models.generate_videos (veo.py 435-477); an exception is turned into
\* "Request failed" by the outer except (557-558).
GenSubmit ==
    /\ vcall = "generate"
    /\ vpc = "submit"
    /\ \/ \* building the config or loading the image fails: nothing is sent
          /\ VeoReturn(VeoError("request_failed"))
          /\ UNCHANGED requests
       \/ \* the request is sent and fails
          /\ requests' = Append(requests, 0)
          /\ VeoReturn(VeoError("request_failed"))
       \/ \* the request is accepted: an operation to poll
          /\ requests' = Append(requests, 0)
          /\ vpc' = "poll"
          /\ UNCHANGED vret
    /\ UNCHANGED <<vcall, has_credentials, duration, video_exists, seed_duration,
                   num_extensions, ext_num, attempt, current_video_path, polls,
                   lastPoll, artifacts, truncatedLeft>>
    /\ UNCHANGED <<batchVars, asmVars, utilVars>>

\* One turn of the poll loop of generate_video_impl (veo.py 481-555), with
\* the return that follows the loop when the turn was its last.
GenPoll ==
    /\ vcall = "generate"
    /\ vpc = "poll"
    /\ polls' = polls + 1
    /\ \/ \* client.operations.get raises: the outer except returns at once
          /\ lastPoll' = "raised"
          /\ VeoReturn(VeoError("request_failed"))
          /\ UNCHANGED <<attempt, artifacts, truncatedLeft>>
       \/ \* not done: sleep, next turn, or the loop ends
          /\ lastPoll' = "pending"
          /\ IF GenBudgetSpent(attempt + 1)
             THEN /\ VeoReturn(VeoError("timed_out"))
                  /\ UNCHANGED attempt
             ELSE /\ attempt' = attempt + 1
                  /\ UNCHANGED <<vpc, vret>>
          /\ UNCHANGED <<artifacts, truncatedLeft>>
       \/ \* done with operation.error
          /\ lastPoll' = "done_error"
          /\ VeoReturn(VeoError("generation_failed"))
          /\ UNCHANGED <<attempt, artifacts, truncatedLeft>>
       \/ \* done without videos, or without video data
          /\ lastPoll' = "done_empty"
          /\ \E e \in {"no_videos", "no_video_data"} : VeoReturn(VeoError(e))
          /\ UNCHANGED <<attempt, artifacts, truncatedLeft>>
       \/ \* done with a video that is saved
          /\ lastPoll' = "done_video"
          /\ artifacts' = artifacts \cup {1}
          /\ VeoReturn(VeoSuccess(1, 0))
          /\ UNCHANGED <<attempt, truncatedLeft>>
       \/ \* done with a video whose download or write fails
          /\ lastPoll' = "done_video"
          /\ \E e \in {"download_failed", "request_failed"} : VeoReturn(VeoError(e))
          /\ \E left \in BOOLEAN : truncatedLeft' = left
          /\ UNCHANGED <<attempt, artifacts>>
    /\ UNCHANGED <<vcall, has_credentials, duration, video_exists, seed_duration,
                   num_extensions, ext_num, current_video_path, requests>>
    /\ UNCHANGED <<batchVars, asmVars, utilVars>>

\* The checks of extend_video before its loop (veo.py 240-254).
ExtEnter ==
    /\ vcall = "extend"
    /\ vpc = "entry"
    /\ IF ~has_credentials
       THEN VeoReturn(VeoError("no_api_key"))
       ELSE IF ~video_exists
       THEN VeoReturn(VeoError("video_not_found"))
       ELSE IF ~ValidNumExtensions(num_extensions)
       THEN VeoReturn(VeoError("num_extensions_out_of_range"))
       ELSE /\ vpc' = "load"
            /\ UNCHANGED vret
    /\ UNCHANGED <<vcall, has_credentials, duration, video_exists, seed_duration,
                   num_extensions, ext_num, attempt, current_video_path, requests, polls,
                   lastPoll, artifacts, truncatedLeft>>
    /\ UNCHANGED <<batchVars, asmVars, utilVars>>

\* Mutant of StepError: a failed step is skipped and the chain goes on.
StepErrorSkipped(e) ==
    /\ vpc' = "load"
    /\ ext_num' = ext_num + 1
    /\ UNCHANGED vret

\* A step of the chain failed: extend_video returns the error at once
\* (veo.py 263, 310, 317, 335, 358, 360, 362, 371, 373).
StepError(e) ==
    /\ VeoReturn(VeoError(e))
    /\ UNCHANGED ext_num

\* The head of one turn of the extension loop (veo.py 256-296): the current
\* video is loaded and posted to the provider.
ExtSubmit ==
    /\ vcall = "extend"
    /\ vpc = "load"
    /\ \/ \* FileNotFoundError: the current video is gone
          /\ StepError("video_not_found")
          /\ UNCHANGED <<requests, attempt, polls, lastPoll>>
       \/ \* the POST fails, or its answer names no operation
          /\ requests' = Append(requests, Seed)
          /\ \E e \in {"api_error", "request_failed", "unexpected_response"} : StepError(e)
          /\ UNCHANGED <<attempt, polls, lastPoll>>
       \/ \* the POST is accepted: an operation to poll
          /\ requests' = Append(requests, Seed)
          /\ vpc' = "poll"
          /\ attempt' = 0
          /\ polls' = 0
          /\ lastPoll' = "none"
          /\ UNCHANGED <<vret, ext_num>>
    /\ UNCHANGED <<vcall, has_credentials, duration, video_exists, seed_duration,
                   num_extensions, current_video_path, artifacts, truncatedLeft>>
    /\ UNCHANGED <<batchVars, asmVars, utilVars>>

\* The except branch of the poll loop of a step (veo.py 354-358): sleep and
\* take the next turn, unless this was the last one.
PollException ==
    IF ExtBudgetSpent(attempt + 1)
    THEN /\ StepError("polling_failed")
         /\ UNCHANGED attempt
    ELSE /\ attempt' = attempt + 1
         /\ UNCHANGED <<vpc, vret, ext_num>>

\* One turn of the poll loop of an extension step (veo.py 302-360), with what
\* follows the loop when the turn ends it: the next turn of the extension
\* loop, or the return of final_result (375).
ExtPoll ==
    /\ vcall = "extend"
    /\ vpc = "poll"
    /\ polls' = polls + 1
    /\ \/ \* the status request raises
          /\ lastPoll' = "raised"
          /\ PollException
          /\ UNCHANGED <<current_video_path, artifacts, truncatedLeft>>
       \/ \* not done: sleep, next turn, or the else branch of the loop
          /\ lastPoll' = "pending"
          /\ IF ExtBudgetSpent(attempt + 1)
             THEN /\ StepError("timed_out")
                  /\ UNCHANGED attempt
             ELSE /\ attempt' = attempt + 1
                  /\ UNCHANGED <<vpc, vret, ext_num>>
          /\ UNCHANGED <<current_video_path, artifacts, truncatedLeft>>
       \/ \* done with an error of the provider
          /\ lastPoll' = "done_error"
          /\ StepError("extension_failed")
          /\ UNCHANGED <<attempt, current_video_path, artifacts, truncatedLeft>>
       \/ \* done without a video, or without video data
          /\ lastPoll' = "done_empty"
          /\ \E e \in {"no_video", "no_video_data"} : StepError(e)
          /\ UNCHANGED <<attempt, current_video_path, artifacts, truncatedLeft>>
       \/ \* done with a video whose download raises: caught by the same except
          /\ lastPoll' = "done_video"
          /\ PollException
          /\ \E left \in BOOLEAN : truncatedLeft' = (truncatedLeft \/ left)
          /\ UNCHANGED <<current_video_path, artifacts>>
       \/ \* done with a video that is saved: the step is complete
          /\ lastPoll' = "done_video"
          /\ artifacts' = artifacts \cup {ext_num + 1}
          /\ current_video_path' = ext_num + 1
          /\ IF ext_num + 1 >= num_extensions
             THEN /\ VeoReturn(VeoSuccess(ext_num + 1, ext_num + 1))
                  /\ UNCHANGED ext_num
             ELSE /\ ext_num' = ext_num + 1
                  /\ vpc' = "load"
                  /\ UNCHANGED vret
          /\ UNCHANGED <<attempt, truncatedLeft>>
    /\ UNCHANGED <<vcall, has_credentials, duration, video_exists, seed_duration,
                   num_extensions, requests>>
    /\ UNCHANGED <<batchVars, asmVars, utilVars>>

\* One call of generate_video_impl or of extend_video, for every argument
\* and environment of the sets above.
InitVeo ==
    /\ vcall \in {"generate", "extend"}
    /\ vpc = "entry"
    /\ has_credentials \in BOOLEAN
    /\ duration \in (IF vcall = "generate" THEN GenDurationChoices ELSE {0})
    /\ video_exists \in (IF vcall = "extend" THEN BOOLEAN ELSE {FALSE})
    /\ seed_duration \in (IF vcall = "extend" THEN SeedDurationChoices ELSE {0})
    /\ num_extensions \in (IF vcall = "extend" THEN NumExtensionsChoices ELSE {0})
    /\ ext_num = 0
    /\ attempt = 0
    /\ current_video_path = 0
    /\ requests = <<>>
    /\ polls = 0
    /\ lastPoll = "none"
    /\ artifacts = {}
    /\ truncatedLeft = FALSE
    /\ vret = NoVeoReturn
    /\ BatchUnused
    /\ AssemblerUnused
    /\ UtilUnused

NextVeo ==
    \/ GenEnter
    \/ GenSubmit
    \/ GenPoll
    \/ ExtEnter
    \/ ExtSubmit
    \/ ExtPoll

SpecVeo == InitVeo /\ [][NextVeo]_vars

\* ===================================== video_concat.py: concat_video
\* ----------------------------------------------------------- concat: data
\* Lengths in seconds of the modelled clips.
ClipDurationChoices == {4, 8}
\* The transition_duration arguments of the modelled calls.
TransitionDurationChoices == {1, 5, 9}

\* A clip: the file exists, its length, and whether ffprobe reports a length.
ClipSet == [exists : BOOLEAN, duration : ClipDurationChoices, probe_ok : BOOLEAN]
ClipLists == UNION {[1..n -> ClipSet] : n \in 0..MaxClips}

ConcatError(e) == [kind |-> "error", error |-> e]

\* durations[0] + ... + durations[k-1]
RECURSIVE DurationSum(_, _)
DurationSum(clips, k) ==
    IF k = 0 THEN 0 ELSE DurationSum(clips, k - 1) + clips[k].duration

\* The offsets of the xfade chain (video_concat.py 181-193): the first is
\* durations[0] - duration, each next one adds durations[i] - duration.
XfadeOffsets(clips, d) ==
    [k \in 1..(Len(clips) - 1) |-> DurationSum(clips, k) - k * d]

\* ---------------------------------------------------------- concat: steps
ConcatReturn(r) ==
    /\ cret' = r
    /\ cpc' = "returned"

\* concat_video up to the choice of the method (video_concat.py 37-69).
ConcatEnter ==
    /\ cpc = "entry"
    /\ IF input_files = <<>>
       THEN ConcatReturn(ConcatError("no_input_files"))
       ELSE IF \E k \in 1..Len(input_files) : ~input_files[k].exists
       THEN ConcatReturn(ConcatError("input_not_found"))
       ELSE /\ cpc' = IF transition # "none" THEN "transition" ELSE "simple"
            /\ UNCHANGED cret
    /\ UNCHANGED <<input_files, transition, transition_duration, xfade_offsets, ffmpeg_invoked>>
    /\ UNCHANGED <<batchVars, asmVars, veoVars, lockVars, stripVars, initVars>>

\* The transcoder run of either method: exit code 0, another exit code, or
\* an exception (a timeout) that concat_video turns into an error
\* (video_concat.py 126-140, 226-242, 71-72).
RunTranscoder ==
    /\ ffmpeg_invoked' = TRUE
    /\ \/ ConcatReturn([kind |-> "success", error |-> "none"])
       \/ \E e \in {"ffmpeg_error", "concatenation_failed"} : ConcatReturn(ConcatError(e))

\* _concat_simple (video_concat.py 75-140).
ConcatSimple ==
    /\ cpc = "simple"
    /\ RunTranscoder
    /\ UNCHANGED <<input_files, transition, transition_duration, xfade_offsets>>
    /\ UNCHANGED <<batchVars, asmVars, veoVars, lockVars, stripVars, initVars>>

\* _concat_with_transition up to the finished filter graph (video_concat.py
\* 148-209): the lengths are probed, then the xfade chain is built from them.
ConcatBuildGraph ==
    /\ cpc = "transition"
    /\ IF \E k \in 1..Len(input_files) : ~input_files[k].probe_ok
       THEN /\ ConcatReturn(ConcatError("no_duration"))
            /\ UNCHANGED xfade_offsets
       ELSE /\ xfade_offsets' = XfadeOffsets(input_files, transition_duration)
            /\ cpc' = "run"
            /\ UNCHANGED cret
    /\ UNCHANGED <<input_files, transition, transition_duration, ffmpeg_invoked>>
    /\ UNCHANGED <<batchVars, asmVars, veoVars, lockVars, stripVars, initVars>>

\* _concat_with_transition from the command to the return (video_concat.py 211-242).
ConcatRunGraph ==
    /\ cpc = "run"
    /\ RunTranscoder
    /\ UNCHANGED <<input_files, transition, transition_duration, xfade_offsets>>
    /\ UNCHANGED <<batchVars, asmVars, veoVars, lockVars, stripVars, initVars>>

\* One call of concat_video for every clip list and transition of the sets above.
InitConcat ==
    /\ input_files \in ClipLists
    /\ transition \in {"none", "fade"}
    /\ transition_duration \in TransitionDurationChoices
    /\ cpc = "entry"
    /\ xfade_offsets = <<>>
    /\ ffmpeg_invoked = FALSE
    /\ cret = NoConcatReturn
    /\ BatchUnused
    /\ AssemblerUnused
    /\ VeoUnused
    /\ LockUnused
    /\ StripUnused
    /\ InitProjectUnused

NextConcat ==
    \/ ConcatEnter
    \/ ConcatSimple
    \/ ConcatBuildGraph
    \/ ConcatRunGraph

SpecConcat == InitConcat /\ [][NextConcat]_vars

\* ============================== veo.py: _print_lock and the status table
\* ----------------------------------------------------------- status: data
MainThread == <<"main", 0>>
Worker(i) == <<"worker", i>>
Workers == {Worker(i) : i \in Indices}
Threads == {MainThread} \cup Workers

\* The positions of a thread inside _update_status_display, in order
\* (veo.py 601-638): waiting for the lock, the four counting passes, the
\* listing of the entries, the printed summary.
DisplayPositions ==
    <<"acquire_display", "count_pending", "count_running", "count_complete",
      "count_failed", "list_entries", "emit">>
\* The positions at which a thread waits for _print_lock (veo.py 601, 663, 688).
AcquirePositions == {"acquire_display", "acquire_running", "acquire_status"}
\* The positions inside a `with _print_lock` block.
GuardedPositions ==
    {"write_running", "write_status", "count_pending", "count_running",
     "count_complete", "count_failed", "list_entries", "emit"}

\* sum(1 for s in _batch_status.values() if s == status)
CountOf(status) == Cardinality({i \in DOMAIN batch_status : batch_status[i] = status})

PositionAfter(pos) ==
    LET k == CHOOSE n \in 1..Len(DisplayPositions) : DisplayPositions[n] = pos
    IN  DisplayPositions[k + 1]

\* Where a thread goes when its _update_status_display call returns: the
\* caller submits the jobs (veo.py 756), a worker calls generate_video (669)
\* or returns its result (697-699).
AfterDisplay(t) ==
    IF t = MainThread THEN "submit"
    ELSE IF outcome[t[2]] = "none" THEN "generate"
    ELSE "done"

\* A job occupies a pool thread from its dispatch to the end of its worker.
Dispatched(i) == tpc[Worker(i)] \notin {"unsubmitted", "queued", "done", "raised"}

\* Mutant of LockAvailable: the lock excludes nobody.
LockAvailableAlways == TRUE

\* threading.Lock: acquire() returns only when no thread holds the lock.
LockAvailable == lock_owner = LockFree

\* ---------------------------------------------------------- status: steps

\* generate_videos_batch creates the table before any worker exists
\* (veo.py 738-740) and calls _update_status_display (753).
StatusCreate ==
    /\ tpc[MainThread] = "create"
    /\ batch_status' = [i \in Indices |-> "pending"]
    /\ tpc' = [tpc EXCEPT ![MainThread] = "acquire_display"]
    /\ UNCHANGED <<outcome, lock_owner, tally,
                 configs, max_workers, bpc, batch_files, wpc, wres,
                 future, results, order, ret, cwdFiles, clock>>
    /\ UNCHANGED <<asmVars, veoVars, concatVars, stripVars, initVars>>

\* `with _print_lock:` is entered (veo.py 601, 663, 688).
LockAcquire(t) ==
    /\ tpc[t] \in AcquirePositions
    /\ LockAvailable
    /\ lock_owner' = t
    /\ tpc' = [tpc EXCEPT ![t] =
                  IF tpc[t] = "acquire_display" THEN "count_pending"
                  ELSE IF tpc[t] = "acquire_running" THEN "write_running"
                  ELSE "write_status"]
    /\ UNCHANGED <<batch_status, outcome, tally,
                 configs, max_workers, bpc, batch_files, wpc, wres,
                 future, results, order, ret, cwdFiles, clock>>
    /\ UNCHANGED <<asmVars, veoVars, concatVars, stripVars, initVars>>

\* One counting pass over the table (veo.py 606-609).
DisplayCount(t) ==
    /\ tpc[t] \in {"count_pending", "count_running", "count_complete", "count_failed"}
    /\ LET status == IF tpc[t] = "count_pending" THEN "pending"
                     ELSE IF tpc[t] = "count_running" THEN "running"
                     ELSE IF tpc[t] = "count_complete" THEN "complete"
                     ELSE "failed"
       IN  tally' = [tally EXCEPT ![t].counts = Append(@, CountOf(status))]
    /\ tpc' = [tpc EXCEPT ![t] = PositionAfter(tpc[t])]
    /\ UNCHANGED <<batch_status, outcome, lock_owner,
                 configs, max_workers, bpc, batch_files, wpc, wres,
                 future, results, order, ret, cwdFiles, clock>>
    /\ UNCHANGED <<asmVars, veoVars, concatVars, stripVars, initVars>>

\* The loop that prints one line per entry (veo.py 616-634).
DisplayList(t) ==
    /\ tpc[t] = "list_entries"
    /\ tally' = [tally EXCEPT ![t].entries = batch_status]
    /\ tpc' = [tpc EXCEPT ![t] = PositionAfter(tpc[t])]
    /\ UNCHANGED <<batch_status, outcome, lock_owner,
                 configs, max_workers, bpc, batch_files, wpc, wres,
                 future, results, order, ret, cwdFiles, clock>>
    /\ UNCHANGED <<asmVars, veoVars, concatVars, stripVars, initVars>>

\* The summary line is printed and the with block left (veo.py 636-638).
DisplayEmit(t) ==
    /\ tpc[t] = "emit"
    /\ lock_owner' = LockFree
    /\ tally' = [tally EXCEPT ![t] = [counts |-> <<>>, entries |-> <<>>]]
    /\ tpc' = [tpc EXCEPT ![t] = AfterDisplay(t)]
    /\ UNCHANGED <<batch_status, outcome,
                 configs, max_workers, bpc, batch_files, wpc, wres,
                 future, results, order, ret, cwdFiles, clock>>
    /\ UNCHANGED <<asmVars, veoVars, concatVars, stripVars, initVars>>

\* executor.submit for every config (veo.py 756-761).
StatusSubmit ==
    /\ tpc[MainThread] = "submit"
    /\ tpc' = [t \in Threads |-> IF t = MainThread THEN "wait" ELSE "queued"]
    /\ UNCHANGED <<batch_status, outcome, lock_owner, tally,
                 configs, max_workers, bpc, batch_files, wpc, wres,
                 future, results, order, ret, cwdFiles, clock>>
    /\ UNCHANGED <<asmVars, veoVars, concatVars, stripVars, initVars>>

\* A pool thread takes job i off the queue (veo.py 641-663).
StatusDispatch(i) ==
    /\ tpc[Worker(i)] = "queued"
    /\ \A j \in Indices : j < i => tpc[Worker(j)] # "queued"
    /\ Cardinality({j \in Indices : Dispatched(j)}) < PoolSize
    /\ tpc' = [tpc EXCEPT ![Worker(i)] = "acquire_running"]
    /\ UNCHANGED <<batch_status, outcome, lock_owner, tally,
                 configs, max_workers, bpc, batch_files, wpc, wres,
                 future, results, order, ret, cwdFiles, clock>>
    /\ UNCHANGED <<asmVars, veoVars, concatVars, stripVars, initVars>>

\* _batch_status[idx] = "running" and the end of the with block (veo.py 664).
WriteRunning(i) ==
    /\ tpc[Worker(i)] = "write_running"
    /\ batch_status' = [batch_status EXCEPT ![i] = "running"]
    /\ lock_owner' = LockFree
    /\ tpc' = [tpc EXCEPT ![Worker(i)] = "acquire_display"]
    /\ UNCHANGED <<outcome, tally,
                 configs, max_workers, bpc, batch_files, wpc, wres,
                 future, results, order, ret, cwdFiles, clock>>
    /\ UNCHANGED <<asmVars, veoVars, concatVars, stripVars, initVars>>

\* generate_video returns a result or raises (veo.py 669-685).
StatusGenerate(i) ==
    /\ tpc[Worker(i)] = "generate"
    /\ \E o \in {"success", "failed", "raised"} :
          /\ outcome' = [outcome EXCEPT ![i] = o]
          /\ tpc' = [tpc EXCEPT ![Worker(i)] = IF o = "raised" THEN "raised" ELSE "acquire_status"]
    /\ UNCHANGED <<batch_status, lock_owner, tally,
                 configs, max_workers, bpc, batch_files, wpc, wres,
                 future, results, order, ret, cwdFiles, clock>>
    /\ UNCHANGED <<asmVars, veoVars, concatVars, stripVars, initVars>>

\* The terminal status is written and the with block left (veo.py 689-693).
WriteStatus(i) ==
    /\ tpc[Worker(i)] = "write_status"
    /\ batch_status' = [batch_status EXCEPT ![i] = StatusOf([success |-> outcome[i] = "success"])]
    /\ lock_owner' = LockFree
    /\ tpc' = [tpc EXCEPT ![Worker(i)] = "acquire_display"]
    /\ UNCHANGED <<outcome, tally,
                 configs, max_workers, bpc, batch_files, wpc, wres,
                 future, results, order, ret, cwdFiles, clock>>
    /\ UNCHANGED <<asmVars, veoVars, concatVars, stripVars, initVars>>

\* Every future is done: the executor is left and the batch returns
\* (veo.py 764-817).
StatusReturn ==
    /\ tpc[MainThread] = "wait"
    /\ \A i \in Indices : tpc[Worker(i)] \in {"done", "raised"}
    /\ tpc' = [tpc EXCEPT ![MainThread] = "returned"]
    /\ UNCHANGED <<batch_status, outcome, lock_owner, tally,
                 configs, max_workers, bpc, batch_files, wpc, wres,
                 future, results, order, ret, cwdFiles, clock>>
    /\ UNCHANGED <<asmVars, veoVars, concatVars, stripVars, initVars>>

\* A batch whose configs passed the validation, about to create its table.
InitStatus ==
    /\ configs \in {c \in ConfigLists : c # <<>> /\ \A i \in DOMAIN c : c[i].prompt /\ c[i].output = 0}
    /\ max_workers \in 1..MaxWorkers
    /\ bpc = "unused"
    /\ batch_status = <<>>
    /\ batch_files = <<>>
    /\ wpc = <<>>
    /\ wres = <<>>
    /\ outcome = [i \in Indices |-> "none"]
    /\ future = <<>>
    /\ results = <<>>
    /\ order = <<>>
    /\ ret = NoReturn
    /\ cwdFiles = <<>>
    /\ clock = 0
    /\ tpc = [t \in Threads |-> IF t = MainThread THEN "create" ELSE "unsubmitted"]
    /\ lock_owner = LockFree
    /\ tally = [t \in Threads |-> [counts |-> <<>>, entries |-> <<>>]]
    /\ AssemblerUnused
    /\ VeoUnused
    /\ ConcatUnused
    /\ StripUnused
    /\ InitProjectUnused

NextStatus ==
    \/ StatusCreate
    \/ StatusSubmit
    \/ StatusReturn
    \/ \E t \in Threads : LockAcquire(t)
    \/ \E t \in Threads : DisplayCount(t)
    \/ \E t \in Threads : DisplayList(t)
    \/ \E t \in Threads : DisplayEmit(t)
    \/ \E i \in Indices : StatusDispatch(i)
    \/ \E i \in Indices : WriteRunning(i)
    \/ \E i \in Indices : StatusGenerate(i)
    \/ \E i \in Indices : WriteStatus(i)

SpecStatus == InitStatus /\ [][NextStatus]_vars

\* ================= assemble.py strip_audio_from_scenes: helper and fallback
\* ------------------------------------------------------------ strip: data
StripImplementations == {"helper", "ffmpeg"}

\* An implementation returned with `result`.
StripDone(impl, result) ==
    strip_run' = [strip_run EXCEPT ![impl].at = "done", ![impl].result = result]

\* ----------------------------------------------------------- strip: steps
\* strip_audio_from_scenes with video_strip_audio.py found, up to the start
\* of the script (assemble.py 406-427).
HelperEntry ==
    /\ strip_run["helper"].at = "entry"
    /\ IF dry_run
       THEN StripDone("helper", "success")
       ELSE IF SortedFiles(sceneFiles) = <<>>
       THEN StripDone("helper", "failure")
       ELSE strip_run' = [strip_run EXCEPT !["helper"].at = "loop"]
    /\ UNCHANGED <<transcoder_ok, dry_run, sceneFiles, config, skip_generation, apc, steps, invoked,
                 aret, exit_code, silentFiles, voiceoverFile, musicFile, mixFile,
                 concatFile, outputFile, written, providerCalls, concatInput,
                 mixInput, stageRun>>
    /\ UNCHANGED <<batchVars, veoVars, concatVars, lockVars, initVars>>

\* One turn of the loop of strip_audio_batch: a file the transcoder fails on
\* is counted and the loop goes on (video_strip_audio.py 107-129).
HelperFile ==
    /\ strip_run["helper"].at = "loop"
    /\ strip_run["helper"].k < Len(SortedFiles(sceneFiles))
    /\ LET f == SortedFiles(sceneFiles)[strip_run["helper"].k + 1]
       IN  strip_run' = [strip_run EXCEPT
                            !["helper"].k = @ + 1,
                            !["helper"].out = IF f \in transcoder_ok THEN @ \cup {f} ELSE @,
                            !["helper"].failed = IF f \in transcoder_ok THEN @ ELSE @ + 1]
    /\ UNCHANGED <<transcoder_ok, dry_run, sceneFiles, config, skip_generation, apc, steps, invoked,
                 aret, exit_code, silentFiles, voiceoverFile, musicFile, mixFile,
                 concatFile, outputFile, written, providerCalls, concatInput,
                 mixInput, stageRun>>
    /\ UNCHANGED <<batchVars, veoVars, concatVars, lockVars, initVars>>

\* The script ends with exit code 1 if a file failed, run_script turns the
\* exit code into success, strip_audio_from_scenes returns it
\* (video_strip_audio.py 131-137, 193-198; assemble.py 427-437).
HelperExit ==
    /\ strip_run["helper"].at = "loop"
    /\ strip_run["helper"].k = Len(SortedFiles(sceneFiles))
    /\ StripDone("helper", IF strip_run["helper"].failed = 0 THEN "success" ELSE "failure")
    /\ UNCHANGED <<transcoder_ok, dry_run, sceneFiles, config, skip_generation, apc, steps, invoked,
                 aret, exit_code, silentFiles, voiceoverFile, musicFile, mixFile,
                 concatFile, outputFile, written, providerCalls, concatInput,
                 mixInput, stageRun>>
    /\ UNCHANGED <<batchVars, veoVars, concatVars, lockVars, initVars>>

\* strip_audio_from_scenes with video_strip_audio.py absent: the except
\* branch calls _strip_audio_ffmpeg (assemble.py 406-414, 441-442).
FfmpegEntry ==
    /\ strip_run["ffmpeg"].at = "entry"
    /\ IF dry_run
       THEN StripDone("ffmpeg", "success")
       ELSE strip_run' = [strip_run EXCEPT !["ffmpeg"].at = "loop"]
    /\ UNCHANGED <<transcoder_ok, dry_run, sceneFiles, config, skip_generation, apc, steps, invoked,
                 aret, exit_code, silentFiles, voiceoverFile, musicFile, mixFile,
                 concatFile, outputFile, written, providerCalls, concatInput,
                 mixInput, stageRun>>
    /\ UNCHANGED <<batchVars, veoVars, concatVars, lockVars, initVars>>

\* One turn of the loop of _strip_audio_ffmpeg: the first file the
\* transcoder fails on ends the stage (assemble.py 444-451).
FfmpegFile ==
    /\ strip_run["ffmpeg"].at = "loop"
    /\ strip_run["ffmpeg"].k < Len(SortedFiles(sceneFiles))
    /\ LET f == SortedFiles(sceneFiles)[strip_run["ffmpeg"].k + 1]
       IN  IF f \in transcoder_ok
           THEN strip_run' = [strip_run EXCEPT !["ffmpeg"].k = @ + 1,
                                               !["ffmpeg"].out = @ \cup {f}]
           ELSE strip_run' = [strip_run EXCEPT !["ffmpeg"].at = "done",
                                               !["ffmpeg"].failed = @ + 1,
                                               !["ffmpeg"].result = "failure"]
    /\ UNCHANGED <<transcoder_ok, dry_run, sceneFiles, config, skip_generation, apc, steps, invoked,
                 aret, exit_code, silentFiles, voiceoverFile, musicFile, mixFile,
                 concatFile, outputFile, written, providerCalls, concatInput,
                 mixInput, stageRun>>
    /\ UNCHANGED <<batchVars, veoVars, concatVars, lockVars, initVars>>

\* The loop of _strip_audio_ffmpeg is over (assemble.py 453).
FfmpegExit ==
    /\ strip_run["ffmpeg"].at = "loop"
    /\ strip_run["ffmpeg"].k = Len(SortedFiles(sceneFiles))
    /\ StripDone("ffmpeg", "success")
    /\ UNCHANGED <<transcoder_ok, dry_run, sceneFiles, config, skip_generation, apc, steps, invoked,
                 aret, exit_code, silentFiles, voiceoverFile, musicFile, mixFile,
                 concatFile, outputFile, written, providerCalls, concatInput,
                 mixInput, stageRun>>
    /\ UNCHANGED <<batchVars, veoVars, concatVars, lockVars, initVars>>

\* The same scenes directory and the same transcoder behaviour for both
\* implementations, each writing to a work directory of its own.
InitStrip ==
    /\ sceneFiles \in SUBSET SceneNames
    /\ transcoder_ok \in SUBSET sceneFiles
    /\ dry_run \in BOOLEAN
    /\ strip_run = [impl \in StripImplementations |->
                        [at |-> "entry", k |-> 0, out |-> {}, failed |-> 0,
                         result |-> "none"]]
    /\ config = [audio_strategy |-> "veo_audio", scenes |-> <<>>,
                 voiceover_enabled |-> FALSE, music_enabled |-> FALSE]
    /\ skip_generation = FALSE
    /\ apc = "unused"
    /\ steps = <<>>
    /\ invoked = <<>>
    /\ aret = NoAssembleReturn
    /\ exit_code = 0
    /\ silentFiles = {}
    /\ voiceoverFile = FALSE
    /\ musicFile = FALSE
    /\ mixFile = {}
    /\ concatFile = <<>>
    /\ outputFile = NoOutput
    /\ written = {}
    /\ providerCalls = {}
    /\ concatInput = <<>>
    /\ mixInput = {}
    /\ stageRun = NoStageRun
    /\ BatchUnused
    /\ VeoUnused
    /\ ConcatUnused
    /\ LockUnused
    /\ InitProjectUnused

NextStrip ==
    \/ HelperEntry
    \/ HelperFile
    \/ HelperExit
    \/ FfmpegEntry
    \/ FfmpegFile
    \/ FfmpegExit

SpecStrip == InitStrip /\ [][NextStrip]_vars

\* ===================================== init_project.py: init_project
\* ------------------------------------------------------- init_project: data
\* duration: int = 30 (init_project.py 113)
DEFAULT_DURATION == 30
\* num_scenes: int = 3 (init_project.py 116)
DEFAULT_NUM_SCENES == 3

\* The scenes init_project writes (init_project.py 159-170): each lasts
\* duration // num_scenes, the last one takes the remainder.
InitScenes(d, n) ==
    [i \in 1..n |->
        [name |-> i,
         duration |-> IF i < n THEN d \div n ELSE d - (d \div n) * (n - 1)]]

\* ------------------------------------------------------ init_project: steps
\* init_project (init_project.py 131-209): the project is written, or the
\* folder exists already or cannot be written and an error is returned.
InitProject ==
    /\ ipc = "call"
    /\ \/ /\ config' = [audio_strategy |-> "custom",
                        scenes |-> InitScenes(target_duration, num_scenes),
                        voiceover_enabled |-> TRUE,
                        music_enabled |-> TRUE]
          /\ ipc' = "created"
       \/ /\ ipc' = "error"
          /\ UNCHANGED config
    /\ UNCHANGED <<target_duration, num_scenes, invalid_scenes, dry_run, skip_generation, apc, steps, invoked, aret, exit_code,
                 sceneFiles, silentFiles, voiceoverFile, musicFile, mixFile,
                 concatFile, outputFile, written, providerCalls, concatInput,
                 mixInput, stageRun>>
    /\ UNCHANGED <<batchVars, veoVars, concatVars, lockVars, stripVars>>

\* The duration check of generate_scenes on the project.json just written
\* (assemble.py 350-367).
ValidateDurations ==
    /\ ipc = "created"
    /\ invalid_scenes' = InvalidScenes(config.scenes)
    /\ ipc' = "validated"
    /\ UNCHANGED <<target_duration, num_scenes, config, dry_run, skip_generation, apc, steps, invoked, aret, exit_code,
                 sceneFiles, silentFiles, voiceoverFile, musicFile, mixFile,
                 concatFile, outputFile, written, providerCalls, concatInput,
                 mixInput, stageRun>>
    /\ UNCHANGED <<batchVars, veoVars, concatVars, lockVars, stripVars>>

\* One call of init_project for every duration and scene count from 1 to
\* just above the defaults.
InitInitProject ==
    /\ target_duration \in 1..(DEFAULT_DURATION + 2)
    /\ num_scenes \in 1..(DEFAULT_NUM_SCENES + 1)
    /\ ipc = "call"
    /\ invalid_scenes = {}
    /\ AssemblerUnused
    /\ BatchUnused
    /\ VeoUnused
    /\ ConcatUnused
    /\ LockUnused
    /\ StripUnused

NextInit ==
    \/ InitProject
    \/ ValidateDurations

SpecInit == InitInitProject /\ [][NextInit]_vars

\* ------------------------------------------------------------ batch: claims
\* Jobs whose generate_video call produced a video.
Succeeded == {i \in Indices : outcome[i] = "success"}
\* Jobs that ended failed, timed out, or with an exception in the worker.
Unsuccessful == {i \in Indices : outcome[i] \in {"failed", "timeout", "raised"}}
\* The position of successful job i among the successful jobs, from 1.
RankAmongSucceeded(i) == Cardinality({j \in Succeeded : j <= i})

\* C1 (as stated): when generate_videos_batch returns, `files` has one entry
\* per config and files[i] is the file reported for configs[i], whatever the
\* jobs' outcomes and completion order.
C1_FilesPositional ==
    bpc = "returned" =>
        \A i \in Indices :
            /\ (i + 1) \in DOMAIN ret.files
            /\ ret.files[i + 1] = wres[i].file

\* C1 (amended): `files` holds exactly the files of the successful jobs, in
\* ascending index order and without a place for the unsuccessful ones: its
\* k-th entry is the file reported by the k-th successful config.
C1_FilesOfSuccessfulInIndexOrder ==
    bpc = "returned" =>
        /\ Len(ret.files) = Cardinality(Succeeded)
        /\ \A i \in Succeeded : ret.files[RankAmongSucceeded(i)] = wres[i].file

\* C1 witness: a returned batch collected out of submission order in which a
\* job failed and a job with a higher index succeeded.
C1_Witness ==
    /\ bpc = "returned"
    /\ Len(order) >= 2 /\ order[1] > order[2]
    /\ \E i \in Unsuccessful : \E j \in Succeeded : i < j

\* Job i has its own entry in the returned results, agreeing with its outcome.
Recorded(i) ==
    /\ i \in Indices
    /\ outcome[i] # "none"
    /\ Cardinality({k \in DOMAIN ret.results : ret.results[k].index = i}) = 1
    /\ \A k \in DOMAIN ret.results :
          ret.results[k].index = i => (ret.results[k].success <=> outcome[i] = "success")

\* Some step of job i (its dispatch, a step of its worker, its collection) can
\* be taken now.
JobCanStep(i) ==
    ENABLED (\/ WorkerStart(i) \/ WorkerGenerate(i) \/ WorkerRename(i)
             \/ WorkerUpdateStatus(i) \/ Collect(i))

\* C2: failure isolation. Once a job of a running batch has failed, timed out
\* or raised, no other job is cancelled or blocked: each one is collected
\* already, can take its next step, or waits in the queue behind a job that
\* holds a pool thread or precedes it; and when the batch returns every job
\* was dispatched, reached its own outcome and has its entry in the results.
C2_FailureIsolation ==
    /\ \A i \in Indices :
          (bpc = "running" /\ \E j \in Unsuccessful : j # i) =>
              \/ i \in Collected
              \/ JobCanStep(i)
              \/ /\ wpc[i] = "queued"
                 /\ \E k \in Indices \ {i} : Active(k) \/ (wpc[k] = "queued" /\ k < i)
    /\ bpc = "returned" => \A i \in Indices : Recorded(i)

\* C2 witness: a returned batch in which a job was only dispatched after an
\* earlier job had ended unsuccessfully, and ran to success.
C2_Witness ==
    /\ bpc = "returned"
    /\ PoolSize < Total
    /\ \E i \in Unsuccessful : \E j \in Succeeded : i < j /\ Recorded(j)

\* C10: a batch that started returns a value whose success flag is true
\* exactly when no job ended unsuccessfully, whose `failed` is the number of
\* such jobs and whose successful + failed = total; the only other exit, the
\* error return, happens before any job is submitted.
C10_BatchSuccessCounts ==
    /\ bpc = "returned" =>
          /\ ret.kind = "result"
          /\ ret.success <=> (Unsuccessful = {})
          /\ ret.failed = Cardinality(Unsuccessful)
          /\ ret.successful + ret.failed = ret.total
          /\ ret.total = Total
    /\ bpc = "error" => \A i \in Indices : wpc[i] = "unsubmitted"
    /\ (bpc = "running" /\ Collected = Indices) => ENABLED BatchReturn

\* C10 witness: a partially failed batch returned as a value.
C10_Witness ==
    /\ bpc = "returned"
    /\ Succeeded # {}
    /\ Unsuccessful # {}
    /\ ~ret.success

\* C11: the returned `results` has exactly one entry per submitted config,
\* in ascending submission order: its (i+1)-th entry carries index i, whether
\* the worker of job i returned a result or raised.
C11_ResultsIndexedBySubmission ==
    bpc = "returned" =>
        /\ Len(ret.results) = Total
        /\ \A i \in Indices : ret.results[i + 1].index = i

\* C11 witness: a returned batch whose last job raised in its worker and was
\* collected before an earlier job.
C11_Witness ==
    /\ bpc = "returned"
    /\ Len(order) >= 2 /\ order[1] > order[2]
    /\ outcome[order[1]] = "raised"
    /\ ret.results[order[1] + 1].index = order[1]

\* Entries of the batch whose recorded status is `running`.
RunningEntries == {i \in DOMAIN batch_status : batch_status[i] = "running"}

\* C12: at every moment of a batch the number of entries whose status is
\* `running` is at most min(max_workers, N).
C12_RunningBounded ==
    bpc \in {"running", "returned"} => Cardinality(RunningEntries) <= PoolSize

\* The status moves of one entry that C13 allows.
StatusMoves == {<<"pending", "running">>, <<"running", "complete">>, <<"running", "failed">>}

\* C13: once the batch has its entries their number never changes, and in
\* every step each entry keeps its status or moves pending -> running or
\* running -> complete | failed; a complete or failed entry never changes.
C13_StatusMonotonic ==
    [][ DOMAIN batch_status # {} =>
            /\ DOMAIN batch_status' = DOMAIN batch_status
            /\ \A i \in DOMAIN batch_status :
                  \/ batch_status'[i] = batch_status[i]
                  \/ <<batch_status[i], batch_status'[i]>> \in StatusMoves ]_vars

\* C13 witness: one entry is complete and another failed while the batch is
\* still running (the later steps of the batch leave both as they are).
C13_Witness ==
    /\ bpc = "running"
    /\ \E i, j \in DOMAIN batch_status :
          batch_status[i] = "complete" /\ batch_status[j] = "failed"

\* C20: a timed-out job is told apart from a failed one by its result and by
\* its batch status, and the status of no other entry depends on it.
C20_TimedOutDistinct ==
    \A i, j \in Indices :
        (outcome[i] = "timeout" /\ outcome[j] = "failed" /\ wpc[i] = "done" /\ wpc[j] = "done") =>
            /\ wres[i].error # wres[j].error
            /\ batch_status[i] # batch_status[j]

\* C21: every entry of a returned batch that succeeded and whose config
\* declares an output name reports that name as its file, and the file of
\* that name holds the video generated for this entry.
C21_ReportedOutputHoldsArtifact ==
    bpc = "returned" =>
        \A i \in Succeeded :
            configs[i].output # 0 =>
                /\ ret.results[i + 1].file = OutFile(configs[i].output)
                /\ OutFile(configs[i].output) \in DOMAIN cwdFiles
                /\ cwdFiles[OutFile(configs[i].output)] = i

\* C24: when generate_videos_batch returns, every entry of the status table
\* is complete or failed, none pending or running, and is complete exactly
\* when the returned result of the same index is a success, however the job
\* ended (success result, error result, exception in the worker).
C24_TerminalStatusAtReturn ==
    bpc = "returned" =>
        /\ DOMAIN batch_status = Indices
        /\ \A i \in Indices :
              /\ batch_status[i] \in {"complete", "failed"}
              /\ batch_status[i] = "complete" <=> ret.results[i + 1].success

\* C25: concurrent workers never write to the same path: the files of two
\* entries whose video was saved are distinct, and the file of each still
\* holds its own video (no other worker overwrote it or renamed it away).
C25_WorkersWriteDistinctPaths ==
    \A i \in Succeeded :
        /\ wres[i].file \in DOMAIN cwdFiles
        /\ cwdFiles[wres[i].file] = i
        /\ \A j \in Succeeded \ {i} : wres[j].file # wres[i].file

\* -------------------------------------------------------- assembler: claims
Returned == apc = "exited"
Called(stage) == \E k \in 1..Len(invoked) : invoked[k] = stage
FailedStep(k) == k \in 1..Len(steps) /\ ~steps[k].success

\* C3: whenever assemble returns success in a run that is not a dry run, the
\* file it reports as output_file was written by a stage of that run.
C3_OutputFileWritten ==
    (Returned /\ aret.success /\ ~dry_run) =>
        /\ aret.output_file = "output"
        /\ "output" \in written
        /\ outputFile.exists

\* C4: the clip sequence concatenate_videos hands to the concatenation is the
\* sequence of scenes declared in project.json, in declared order.
C4_ConcatInDeclaredOrder ==
    concatInput # <<>> => concatInput = DeclaredNames

\* C5: under custom and silent, once strip_audio_from_scenes has reported
\* failure the run never executes concatenate_videos and ends in failure.
C5_StripFailureHalts ==
    (/\ config.audio_strategy \in {"custom", "silent"}
     /\ \E k \in 1..Len(steps) : steps[k].name = "strip_audio" /\ FailedStep(k))
    => /\ ~Called("concatenate_videos")
       /\ Returned => ~aret.success

\* The stages after generate_scenes that never start in a run whose scene
\* generation was rejected.
NothingAfterScenes == invoked \in {<<>>, <<"generate_scenes">>}
HasInvalidDuration ==
    \E k \in 1..Len(config.scenes) : config.scenes[k].duration \notin {4, 6, 8}

\* C6 (as stated): with a scene duration outside {4, 6, 8}, every run is
\* rejected up front: no generation job is submitted, no stage after
\* generate_scenes runs and assemble returns failure.
C6_InvalidDurationRejectsEveryRun ==
    HasInvalidDuration =>
        /\ providerCalls = {}
        /\ apc # "idle" => NothingAfterScenes
        /\ Returned => ~aret.success

\* C6 (amended): with a scene duration outside {4, 6, 8} no run submits a
\* generation job, and every run that generates scenes (neither --dry-run
\* nor --skip-generation) stops at generate_scenes and returns failure with
\* exit code 1.
C6_InvalidDurationRejectsGeneratingRun ==
    HasInvalidDuration =>
        /\ providerCalls = {}
        /\ (~dry_run /\ ~skip_generation) =>
              /\ NothingAfterScenes
              /\ Returned =>
                    /\ ~aret.success
                    /\ exit_code = 1
                    /\ Len(steps) = 1
                    /\ steps[1].name = "generate_scenes" /\ ~steps[1].success

\* C6 witness: a generating run rejected by the duration check.
C6_Witness ==
    /\ HasInvalidDuration
    /\ Returned /\ ~dry_run /\ ~skip_generation
    /\ steps = <<StageResult("generate_scenes", FALSE, "Invalid durations")>>
    /\ ~aret.success

FatalStages == {"generate_scenes", "strip_audio", "concatenate_videos", "merge_audio_video"}

\* C7: a reported failure of generate_scenes, strip_audio, concatenate_videos
\* or merge_audio_video is the last thing the run does: no later stage is
\* called, assemble has returned success = false with the steps so far, the
\* failed stage last, and main exits with code 1.
C7_FatalFailureHalts ==
    \A k \in 1..Len(steps) :
        (steps[k].name \in FatalStages /\ FailedStep(k)) =>
            /\ k = Len(steps)
            /\ invoked[Len(invoked)] = steps[k].name
            /\ Returned
            /\ ~aret.success
            /\ aret.steps = steps
            /\ exit_code = 1

\* In the returned run generate_voiceover reported failure and every other
\* stage that ran reported success, none raising.
OnlyVoiceoverFailed ==
    /\ \E k \in 1..Len(steps) : steps[k].name = "generate_voiceover" /\ FailedStep(k)
    /\ \A k \in 1..Len(steps) : FailedStep(k) => steps[k].name = "generate_voiceover"
    /\ aret.error # "exception"

\* C8: under custom, a run in which only generate_voiceover failed executes
\* mix_audio, concatenate_videos and merge_audio_video, returns success, and
\* no voiceover is an input of the mix or part of the final artifact.
C8_VoiceoverFailureNoNarration ==
    (Returned /\ config.audio_strategy = "custom" /\ ~dry_run /\ OnlyVoiceoverFailed) =>
        /\ aret.success
        /\ Called("mix_audio") /\ Called("concatenate_videos") /\ Called("merge_audio_video")
        /\ "voiceover" \notin mixInput
        /\ "voiceover" \notin outputFile.audio

SilentStages == <<"generate_scenes", "strip_audio", "concatenate_videos">>
PlaceInSilentStages(stage) == CHOOSE p \in 1..Len(SilentStages) : SilentStages[p] = stage

\* C9: under audio_strategy = silent the stages called in a run are among
\* generate_scenes, strip_audio, concatenate_videos, each at most once and in
\* that order, whatever the voiceover and music sections say.
C9_SilentStagesOnly ==
    config.audio_strategy = "silent" =>
        /\ \A k \in 1..Len(invoked) : \E p \in 1..Len(SilentStages) : SilentStages[p] = invoked[k]
        /\ \A k, m \in 1..Len(invoked) :
              k < m => PlaceInSilentStages(invoked[k]) < PlaceInSilentStages(invoked[m])

\* C9 witness: a complete silent run of a project whose voiceover and music
\* sections are enabled.
C9_Witness ==
    /\ config.audio_strategy = "silent"
    /\ config.voiceover_enabled /\ config.music_enabled
    /\ Returned /\ aret.success /\ ~dry_run
    /\ invoked = SilentStages

C27_EveryStageRecorded ==
    /\ [](/\ Len(steps) = Len(invoked)
          /\ \A k \in 1..Len(steps) : steps[k].name = invoked[k]
          /\ Returned => aret.steps = steps)
    /\ [][apc \notin {"idle", "exited"} =>
              /\ Len(steps') >= Len(steps)
              /\ SubSeq(steps', 1, Len(steps)) = steps]_vars

\* C28: assemble returns success (and main exits 0) only if every
\* StageResult of the run other than those of generate_voiceover and
\* generate_music is a success.
C28_SuccessOnlyIfStagesSucceeded ==
    (Returned /\ (aret.success \/ exit_code = 0)) =>
        \A k \in 1..Len(aret.steps) :
            aret.steps[k].name \notin {"generate_voiceover", "generate_music"} =>
                aret.steps[k].success

\* ------------------------------------------------- single call: claims
VeoReturned == vpc = "returned"

\* What C14 says about the steps of the chain: the complete artifacts are
\* those of the steps before the current one; a success return follows
\* exactly num_extensions steps and reports that number; an error return
\* follows the failure of step ext_num + 1, the only step attempted after the
\* steps 1..ext_num, and nothing runs after a return.
ChainStepsAccounted ==
    vcall = "extend" =>
        /\ vpc \in {"entry", "load", "poll"} => artifacts = 1..ext_num
        /\ (VeoReturned /\ vret.kind = "success") =>
              /\ artifacts = 1..num_extensions
              /\ vret.extensions_applied = num_extensions
              /\ Len(requests) = num_extensions
        /\ (VeoReturned /\ vret.kind # "success") =>
              /\ vret.kind = "error"
              /\ artifacts = 1..ext_num
              /\ Len(requests) <= ext_num + 1
              /\ num_extensions >= 1 => ext_num < num_extensions
        /\ VeoReturned => ~ENABLED NextVeo

\* C14 (as stated): the files the chain produced are exactly the artifacts
\* of its completed steps: k of them after k steps without failure, those of
\* steps 1..j when step j+1 fails, with no later step attempted and an error
\* as the result.
C14_ExactlyStepArtifacts ==
    /\ ChainStepsAccounted
    /\ vcall = "extend" => ~truncatedLeft

\* C14 (amended): the same for the completely written artifacts; a download
\* that fails inside a step may leave an incomplete file beside them.
C14_CompleteArtifactsOfSteps ==
    /\ ChainStepsAccounted
    /\ truncatedLeft => requests # <<>>

\* C14 witness: a chain of three steps whose third step failed after the
\* first two were completed.
C14_Witness ==
    /\ vcall = "extend"
    /\ num_extensions = 3
    /\ VeoReturned /\ vret.kind = "error"
    /\ artifacts = {1, 2}
    /\ Len(requests) = 3

\* C15: the k-th request of the chain submits the artifact of step k-1 (the
\* caller's video for k = 1), which was completely written before; requests
\* are made one per step, in step order.
C15_SeedIsPreviousArtifact ==
    vcall = "extend" =>
        /\ \A k \in 1..Len(requests) :
              /\ requests[k] = k - 1
              /\ k > 1 => (k - 1) \in artifacts
        /\ Len(requests) <= ext_num + 1
        /\ current_video_path = Cardinality(artifacts)

\* C15 witness: the third step of a chain has submitted the artifact of the
\* second step.
C15_Witness ==
    /\ vcall = "extend"
    /\ vpc = "poll"
    /\ requests = <<0, 1, 2>>
    /\ artifacts = {1, 2}

\* C16: a num_extensions outside [1, 20] never gets past the checks: no
\* request is sent and no file written, and the call returns an error; a
\* value inside [1, 20] is never the reason of a rejection.
C16_NumExtensionsBounds ==
    vcall = "extend" =>
        /\ (num_extensions < 1 \/ num_extensions > 20) =>
              /\ requests = <<>>
              /\ artifacts = {}
              /\ ~truncatedLeft
              /\ vpc \in {"entry", "returned"}
              /\ VeoReturned => vret.kind = "error"
        /\ (num_extensions >= 1 /\ num_extensions <= 20) =>
              /\ vret.error # "num_extensions_out_of_range"
              /\ (vpc = "entry" /\ has_credentials /\ video_exists) =>
                    ENABLED (ExtEnter /\ vpc' = "load")

\* C16 witness: 21 extensions are rejected by the range check itself.
C16_Witness ==
    /\ vcall = "extend"
    /\ num_extensions = 21
    /\ VeoReturned
    /\ vret.error = "num_extensions_out_of_range"

\* C17: for a seed video longer than the maximum source duration no request
\* is ever submitted to the provider.
C17_LongSeedRejected ==
    (vcall = "extend" /\ seed_duration > MAX_SOURCE_DURATION) => requests = <<>>

\* The poll loops stop: a loop never makes more than its 72 status requests,
\* a loop that is not over can always take its next turn, and a loop whose
\* 72nd request found the job not done or raised has returned a timed-out or
\* failed outcome.
PollLoopsBounded ==
    /\ vcall = "generate" =>
          /\ polls <= max_attempts
          /\ attempt < max_attempts
          /\ vpc = "poll" => (polls = attempt /\ ENABLED GenPoll)
          /\ (polls = max_attempts /\ lastPoll \in {"pending", "raised"}) =>
                (VeoReturned /\ vret.error \in {"timed_out", "request_failed"})
    /\ vcall = "extend" =>
          /\ polls <= extend_max_attempts
          /\ attempt < extend_max_attempts
          /\ vpc = "poll" => (polls = attempt /\ ENABLED ExtPoll)
          /\ (polls = extend_max_attempts /\ lastPoll \in {"pending", "raised"}) =>
                (VeoReturned /\ vret.error \in {"timed_out", "polling_failed"})

C19_PollErrorRetried ==
    /\ (VeoReturned /\ lastPoll = "raised") => polls > 1
    /\ lastPoll = "done_error" => (VeoReturned /\ ~ENABLED NextVeo)

\* ------------------------------------------------------- concat: claims
\* C22: a transition duration longer than a clip adjacent to a transition is
\* rejected up front: concat_video builds no graph, never starts the
\* transcoder and returns an error.  A transition lies between every two
\* neighbouring clips, so with two or more clips every clip is adjacent to one.
C22_LongTransitionRejected ==
    (/\ transition # "none"
     /\ Len(input_files) >= 2
     /\ \A k \in 1..Len(input_files) : input_files[k].exists
     /\ \E k \in 1..Len(input_files) : transition_duration > input_files[k].duration) =>
        /\ xfade_offsets = <<>>
        /\ ~ffmpeg_invoked
        /\ cpc = "returned" => cret.kind = "error"

\* ------------------------------------------------------- status: claims
RECURSIVE SumOf(_)
SumOf(counts) == IF counts = <<>> THEN 0 ELSE Head(counts) + SumOf(Tail(counts))

\* C26: every write of the status of an entry of the table, and every read
\* made to build a snapshot, happens while holding _print_lock; an entry is
\* written only by the worker of its index; every snapshot printed is a
\* consistent cut with pending + running + complete + failed = N; and no
\* thread waits for the lock while holding it.
\* First conjunct: the lock is held at every position inside a with block,
\* by one thread at a time, and not by a thread that waits for it.  Second:
\* the snapshot a thread is about to print has four counts that add up to N
\* and are the counts of the statuses it lists, which are those of the
\* table.  Third: a step that changes the status of entry i is taken by the
\* worker of job i inside a with block.
C26_StatusGuardedByLock ==
    /\ [](/\ \A t \in DOMAIN tpc :
                /\ tpc[t] \in GuardedPositions => lock_owner = t
                /\ tpc[t] \in AcquirePositions => lock_owner # t
          /\ lock_owner # LockFree =>
                (lock_owner \in DOMAIN tpc /\ tpc[lock_owner] \in GuardedPositions)
          /\ \A t \in DOMAIN tpc :
                tpc[t] = "emit" =>
                    /\ Len(tally[t].counts) = 4
                    /\ SumOf(tally[t].counts) = Total
                    /\ tally[t].entries = batch_status
                    /\ tally[t].counts = <<CountOf("pending"), CountOf("running"),
                                           CountOf("complete"), CountOf("failed")>>)
    /\ [][\A i \in DOMAIN batch_status :
              batch_status'[i] # batch_status[i] =>
                  /\ lock_owner = Worker(i)
                  /\ tpc[Worker(i)] \in {"write_running", "write_status"}]_vars

\* C26 witness: a worker is about to print a snapshot in which one entry is
\* running and another already terminal, while another worker waits for the
\* lock.
C26_Witness ==
    /\ \E t \in DOMAIN tpc :
          /\ t # MainThread
          /\ tpc[t] = "emit"
          /\ tally[t].counts[2] >= 1
          /\ tally[t].counts[3] + tally[t].counts[4] >= 1
    /\ \E u \in DOMAIN tpc : tpc[u] \in AcquirePositions

\* -------------------------------------------------------- strip: claims
\* C29: on the same scene files and the same per-file transcoder outcomes
\* the helper script and the _strip_audio_ffmpeg fallback report the same
\* success or failure; with no scene files both report failure.
C29_StripImplementationsAgree ==
    (strip_run # <<>> /\ \A impl \in DOMAIN strip_run : strip_run[impl].at = "done") =>
        /\ strip_run["helper"].result = strip_run["ffmpeg"].result
        /\ (sceneFiles = {} /\ ~dry_run) =>
              \A impl \in StripImplementations : strip_run[impl].result = "failure"

\* -------------------------------------------------- init_project: claims
\* C30: a project freshly created by init_project, for every duration >= 1
\* and num_scenes >= 1, passes the duration check of generate_scenes: every
\* generated scene lasts 4, 6 or 8 seconds.
C30_FreshProjectPassesValidation ==
    ipc \in {"created", "validated"} =>
        /\ \A k \in 1..Len(config.scenes) : config.scenes[k].duration \in {4, 6, 8}
        /\ invalid_scenes = {}

====
